---- MODULE Spec2Model ----
(***************************************************************************)
(* A model of the Torn market tracker: the rate-budgeted collection tick   *)
(* (backend/app/services/price_service.py), the fixed-window rate counter  *)
(* (redis_service.py, torn_api.py), alert evaluation and its two callers   *)
(* (the tick and the push feed, torn_websocket.py) and the job schedulers  *)
(* (backend/app/worker.py, app/main.py).                                   *)
(*                                                                         *)
(* Time is counted in minutes.  SQL NULL and Python None are NULL.         *)
(***************************************************************************)
EXTENDS Integers, Sequences, FiniteSets, TLC

\* ------------------------------------------------------------------ bounds
NumItems == 2
NumAlerts == 2
MaxTicks == 2
MaxKeys == 2
Now0 == 100

\* ------------------------------------------------------ program constants
BACKOFF_HIGH_MINUTES == 60
BACKOFF_LOW_MINUTES == 30
FAILURE_THRESHOLD_LOW == 3
FAILURE_THRESHOLD_HIGH == 10
THROTTLE_MINUTES == 5
TickPeriod == 1

NULL == -1

Items == 1..NumItems
Alerts == 1..NumAlerts

\* ------------------------------------------------------------------ state
VARIABLES
    now,            \* wall clock (utcnow), minutes
    ticks,          \* number of ticks started
    api_rate_limit, \* SystemConfig 'api_rate_limit': requests per minute per key
    key_count,      \* number of ApiKey rows with is_active
    items,          \* the items table
    alerts,         \* the price_alerts table
    bazaar_cooldowns, \* the worker's NotificationService._bazaar_cooldowns
    pc,             \* position of update_all_prices
    rate_limit,     \* its local rate_limit
    tracked_items,  \* its local tracked_items (the priority items of this tick)
    untracked_items,\* its local untracked_items (the backfill of this tick)
    price_updates,  \* the updates handed to check_alerts
    fetched,        \* what get_items returned for the items of the last batch
    trig_log,       \* per alert: its evaluations with the condition met, in order
    log             \* the lines the logger has written about the budget, in order

tickVars == <<now, ticks, api_rate_limit, key_count, items, alerts, bazaar_cooldowns,
              pc, rate_limit, tracked_items, untracked_items, price_updates, fetched,
              trig_log, log>>

\* The shared rate counter and the requests that check it.
VARIABLES
    redis_count,    \* value of the Redis key "rate_limit:torn_api"; 0: no such key
    redis_ttl,      \* whether the key carries an expiry
    redis_window,   \* number of times the key has expired
    req_pc,         \* per request task: its position in _request_v2
    req_limit,      \* per request task: its local limit
    req_current,    \* per request task: its local current
    req_window,     \* per request task: the window its increment fell into
    requests,       \* number of _request_v2 calls started
    permitted       \* per window: number of calls check_rate_limit allowed

rateVars == <<redis_count, redis_ttl, redis_window, req_pc, req_limit, req_current,
              req_window, requests, permitted>>

\* The two callers of check_alerts, each with a session of its own.
VARIABLES
    ev_pc,          \* per caller: its position
    ev_updates,     \* per caller: the price_updates it passes
    ev_todo,        \* per caller: the active_alerts still to be looped over
    ev_acc,         \* per caller: its session's alert objects and what it has done
    ev_overlap      \* whether a caller selected while the other was evaluating

raceVars == <<ev_pc, ev_updates, ev_todo, ev_acc, ev_overlap>>

\* The job scheduler of app/main.py and the executions of scheduled_price_check.
VARIABLES
    sched_fired,    \* number of times the interval job came due
    sched_manual,   \* number of POST /api/crawler/run requests served
    sched_skipped,  \* number of runs the scheduler skipped
    job_pc,         \* per job: the position of its execution
    job_pos,        \* per job: number of tracked items its execution has handled
    job_dirty       \* per job: the item rows its session has modified, uncommitted

schedVars == <<sched_fired, sched_manual, sched_skipped, job_pc, job_pos, job_dirty>>

\* The market requests of one get_items call, one task per item.
VARIABLES
    fetch_pc        \* per item: "none", "pending", "allowed" or "denied"

fetchVars == <<fetch_pc>>

\* One chunk of _process_items between its fetch and its commit.
VARIABLES
    price_logs,     \* the committed rows of the price_logs table
    batch_pc,       \* position of _process_items within the chunk
    chunk,          \* ids of the items of the chunk
    sess_items,     \* the chunk's item objects as modified in the session
    sess_logs,      \* price_logs rows inserted in the open transaction
    batches,        \* number of chunks started
    raised          \* where the last chunk raised and for which item, "none" if it did not

batchVars == <<price_logs, batch_pc, chunk, sess_items, sess_logs, batches, raised>>

\* One call of get_items: its tasks under the semaphore, up to the dict returned.
VARIABLES
    task_pc,        \* per task: "waiting", "running", "returned"
    sem_value,      \* the semaphore's counter
    finished,       \* the tasks that returned, in the order they did
    task_result,    \* per task: the pair it returned, << >> before
    results         \* the dict get_items returns, << >> before

gatherVars == <<task_pc, sem_value, finished, task_result, results>>

\* One request to GET /prices/{item_id}.
VARIABLES
    raw_rows,       \* the item's rows of the price_logs table
    year_start,     \* weekday of 1 January of the rows' year, 0 Monday .. 6 Sunday
    scan,           \* the order in which the engine read the rows of the range
    request,        \* the request's interval and the time it was served
    response        \* what the endpoint returned, << >> before

histVars == <<raw_rows, year_start, scan, request, response>>

\* The crawler stage of the first application's scheduled_price_check.
VARIABLES
    all_items,      \* the all_items table: per item last_checked and last_price
    legacy_logs,    \* the price_logs table of that application
    scan_minutes,   \* SystemConfig 'scan_target_hours', in minutes
    crawl_pc,       \* "idle" or "scan"
    crawl_time,     \* int(time.time()) of the running execution, in minutes
    crawl_cycles,   \* number of executions started
    crawler_items,  \* what is left of crawler_items
    db_session,     \* the rows as the execution's session holds them
    fetch_result    \* what the two fetches of the last item returned

crawlVars == <<all_items, legacy_logs, scan_minutes, crawl_pc, crawl_time, crawl_cycles,
               crawler_items, db_session, fetch_result>>

\* The rotation of the credentials among the permitted requests.
VARIABLES
    rotation_index, \* value of the Redis key "apikey:rotation_index"
    key_uses        \* per window and credential: permitted requests sent with it

keyVars == <<rotation_index, key_uses>>

\* Calls of the notifier's send_discord_alert.
VARIABLES
    last_delivered, \* per (seller, item): time of the last alert that went out, or NULL
    call_outcome    \* the last call: its seller and item, whether its alert went out,
                    \* and the minutes since the last alert that went out for the pair

notifyVars == <<last_delivered, call_outcome>>

\* The item catalog and the alerts table as the HTTP handlers and the catalog
\* sync write them.
VARIABLES
    catalog,        \* per item id: whether the row exists, is_tracked, name
    price_alerts,   \* rows of price_alerts: id, item_id, is_active
    track_ops,      \* handler calls and syncs so far
    last_op         \* the last call: its name, its item, is_tracked of the item before

trackVars == <<catalog, price_alerts, track_ops, last_op>>

\* TornWebSocketService.run.
VARIABLES
    ws_pc,            \* where run() is: "top", "connect", "auth", "subscribe", "listen", "backoff"
    ws_token,         \* whether SystemConfig has a torn_ws_token
    ws_attempt,       \* flips each time the outer loop starts an iteration
    ws_event,         \* what ended the last iteration
    ws_snapshot,      \* tracked_items of _subscribe_active_items on this connection
    ws_sent,          \* items whose subscription was sent on this connection
    subscribed_items, \* self.subscribed_items
    ws_handled        \* whether _handle_message ran on this connection

wsVars == <<ws_pc, ws_token, ws_attempt, ws_event, ws_snapshot, ws_sent, subscribed_items,
            ws_handled>>

\* One Item row under the tick's session and the push handler's session.
VARIABLES
    wr_pc,          \* the tick: "idle", "fetch" (items loaded), "save" (get_items answered)
    wr_loaded,      \* the row of item 1 as the tick's session loaded it
    wr_fetched,     \* the entry get_items returned to the tick for item 1
    wr_pushes,      \* push updates committed so far
    wr_epoch,       \* wr_pushes when get_items answered the tick
    wr_lost         \* whether a commit of the tick replaced a price a later push had committed

writeVars == <<wr_pc, wr_loaded, wr_fetched, wr_pushes, wr_epoch, wr_lost>>

vars == <<tickVars, rateVars, raceVars, schedVars, fetchVars, batchVars, gatherVars,
          histVars, crawlVars, keyVars, notifyVars, trackVars, wsVars, writeVars>>


\* ------------------------------------------------------------- the sources
\* What the two external sources answer for one item.  market: the v2 item
\* market request (ok = FALSE: rate limited, no key, API error or HTTP error;
\* its listings come sorted by price); bazaar: the weav3r request (ok = FALSE:
\* a status other than 200 or an exception).  A listing is [price, id].
NoAnswer == [ok |-> FALSE, listings |-> <<>>]

Answer(ls) == [ok |-> TRUE, listings |-> ls]

Listing(p, i) == [price |-> p, id |-> i]

\* The answers the tick is run against: both sources failing, the market alone
\* answering (a listing under the alerts' target), the bazaar alone answering
\* (a listing over it), both answering with no listing.
TickFeeds ==
    { [market |-> NoAnswer, bazaar |-> NoAnswer],
      [market |-> Answer(<<Listing(100, 11)>>), bazaar |-> NoAnswer],
      [market |-> NoAnswer, bazaar |-> Answer(<<Listing(200, 7)>>)],
      [market |-> Answer(<<>>), bazaar |-> Answer(<<>>)] }

\* sorted(valid_listings, key=price): a stable insertion sort.
RECURSIVE InsertByPrice(_, _)
InsertByPrice(l, s) ==
    IF s = <<>> THEN <<l>>
    ELSE IF l.price < Head(s).price THEN <<l>> \o s
    ELSE <<Head(s)>> \o InsertByPrice(l, Tail(s))

RECURSIVE SortByPrice(_)
SortByPrice(s) ==
    IF s = <<>> THEN <<>>
    ELSE InsertByPrice(s[Len(s)], SortByPrice(SubSeq(s, 1, Len(s) - 1)))

\* valid_listings = [l for l in listings if l.get('price')]
ValidListings(s) == SelectSeq(s, LAMBDA l : l.price # NULL /\ l.price # 0)

\* fetch_single_item: the entry get_items returns for one item.
FetchSingleItem(feed) ==
    LET ml == IF feed.market.ok THEN feed.market.listings ELSE <<>>
        bl == IF feed.bazaar.ok THEN SortByPrice(ValidListings(feed.bazaar.listings))
              ELSE <<>>
    IN  [ market_price |-> IF ml # <<>> THEN ml[1].price ELSE 0,
          bazaar_price |-> IF bl # <<>> THEN bl[1].price ELSE 0,
          listings |-> [market |-> ml, bazaar |-> bl],
          status |-> [market |-> feed.market.ok, bazaar |-> feed.bazaar.ok] ]

\* --------------------------------------------------------- _process_items
\* str(x) of a listing id: the digits of an id stand for themselves, and
\* str(None) is the four-letter string 'None'.
NONE_STR == 0

Str(x) == IF x = NULL THEN NONE_STR ELSE x

\* Python truth of an id or a string of the model: None is false, every
\* string built by Str is non-empty.
Truthy(x) == x # NULL

\* A failure count that resets only when both sources succeeded.
NextFailureCountBoth(fc, status) ==
    IF status.market /\ status.bazaar THEN 0
    ELSE (IF fc = NULL THEN 0 ELSE fc) + 1

\* if status.get('market') or status.get('bazaar'): 0, else count + 1
NextFailureCount(fc, status) ==
    IF status.market \/ status.bazaar THEN 0
    ELSE (IF fc = NULL THEN 0 ELSE fc) + 1

\* The id of the cheapest listing, for de-duplication.
BestListingId(data) ==
    IF data.market_price > 0
         /\ (data.bazaar_price = 0 \/ data.market_price < data.bazaar_price)
    THEN IF data.listings.market # <<>> THEN Str(data.listings.market[1].id) ELSE NULL
    ELSE IF data.bazaar_price > 0
    THEN IF data.listings.bazaar # <<>> THEN Str(data.listings.bazaar[1].id) ELSE NULL
    ELSE NULL

CheapestBazaarSeller(data) ==
    IF data.listings.bazaar # <<>> THEN data.listings.bazaar[1].id ELSE NULL

\* The price_updates entry of one item.
PriceUpdate(i, data) ==
    [ item_id |-> i,
      market_price |-> data.market_price,
      bazaar_price |-> data.bazaar_price,
      cheapest_bazaar_seller |-> CheapestBazaarSeller(data),
      best_listing_id |-> BestListingId(data) ]

\* The item row after the loop body: failure count and cache.
ProcessedItem(it, data, t) ==
    [ it EXCEPT !.failure_count = NextFailureCount(it.failure_count, data.status),
                !.last_market_price = data.market_price,
                !.last_bazaar_price = data.bazaar_price,
                !.last_updated_at = t ]

\* ------------------------------------------------------------ the selector
\* rate_limit = base_limit * key_count, no active key counting as one.
EffectiveLimitNoFallback(base_limit, keys) == base_limit * keys

EffectiveLimit(base_limit, keys) == base_limit * (IF keys = 0 THEN 1 ELSE keys)

\* A remaining capacity that forgets the requests phase 1 has used.
RemainingCapacityWhole(limit, n_tracked) == limit

RemainingCapacity(limit, n_tracked) == limit - n_tracked

\* A WHERE clause whose low tier has lost its upper bound on failure_count,
\* so that the low window also admits the items of the high tier.
EligibleLowTierUnbounded(it, t) ==
    /\ ~it.is_tracked
    /\ \/ it.failure_count < FAILURE_THRESHOLD_LOW
       \/ /\ it.failure_count >= FAILURE_THRESHOLD_LOW
          /\ it.last_updated_at # NULL
          /\ it.last_updated_at <= t - BACKOFF_LOW_MINUTES
       \/ /\ it.failure_count >= FAILURE_THRESHOLD_HIGH
          /\ it.last_updated_at # NULL
          /\ it.last_updated_at <= t - BACKOFF_HIGH_MINUTES

\* A WHERE clause whose low window is compared strictly.
EligibleLowWindowStrict(it, t) ==
    /\ ~it.is_tracked
    /\ \/ it.failure_count < FAILURE_THRESHOLD_LOW
       \/ /\ it.failure_count >= FAILURE_THRESHOLD_LOW
          /\ it.failure_count < FAILURE_THRESHOLD_HIGH
          /\ it.last_updated_at # NULL
          /\ it.last_updated_at < t - BACKOFF_LOW_MINUTES
       \/ /\ it.failure_count >= FAILURE_THRESHOLD_HIGH
          /\ it.last_updated_at # NULL
          /\ it.last_updated_at <= t - BACKOFF_HIGH_MINUTES

\* The WHERE clause of the backfill query: a comparison with NULL is not true.
Eligible(it, t) ==
    /\ ~it.is_tracked
    /\ \/ it.failure_count < FAILURE_THRESHOLD_LOW
       \/ /\ it.failure_count >= FAILURE_THRESHOLD_LOW
          /\ it.failure_count < FAILURE_THRESHOLD_HIGH
          /\ it.last_updated_at # NULL
          /\ it.last_updated_at <= t - BACKOFF_LOW_MINUTES
       \/ /\ it.failure_count >= FAILURE_THRESHOLD_HIGH
          /\ it.last_updated_at # NULL
          /\ it.last_updated_at <= t - BACKOFF_HIGH_MINUTES

EligibleItems(tbl, t) == {i \in Items : Eligible(tbl[i], t)}

\* The same query with ORDER BY last_updated_at DESC.
IsOrderedLimitDesc(S, E, tbl, k) ==
    /\ S \subseteq E
    /\ Cardinality(S) = (IF Cardinality(E) < k THEN Cardinality(E) ELSE k)
    /\ \A x \in S, y \in E \ S : tbl[x].last_updated_at >= tbl[y].last_updated_at

\* ORDER BY last_updated_at ASC LIMIT k over the eligible rows: MySQL sorts
\* NULL first (NULL is the least value of the model); rows with equal keys
\* come in any order, so every k rows with no staler row left out are a result.
IsOrderedLimit(S, E, tbl, k) ==
    /\ S \subseteq E
    /\ Cardinality(S) = (IF Cardinality(E) < k THEN Cardinality(E) ELSE k)
    /\ \A x \in S, y \in E \ S : tbl[x].last_updated_at <= tbl[y].last_updated_at

\* ------------------------------------------------------------ the notifier
\* The keywords check_alerts passes to send_discord_alert, and the parameters
\* send_discord_alert declares.  A keyword the function does not declare makes
\* the call raise TypeError before the function body runs.
SendCallKeywords ==
    {"item_name", "item_id", "price", "market_type", "condition", "target_price",
     "bazaar_seller_id", "quantity"}

\* send_discord_alert declaring the quantity parameter its caller passes.
SendDiscordAlertParamsWithQuantity ==
    {"item_name", "item_id", "price", "market_type", "condition", "target_price",
     "bazaar_seller_id", "quantity"}

SendDiscordAlertParams ==
    {"item_name", "item_id", "price", "market_type", "condition", "target_price",
     "bazaar_seller_id"}

CallRaisesTypeError(keywords, params) == keywords \ params # {}

COOLDOWN_MINUTES == 30

\* send_discord_alert without its cooldown check.
SendDiscordAlertWithoutCooldown(cd, seller, item_id, t, env) ==
    [ cd |-> IF Truthy(seller) THEN [cd EXCEPT ![<<seller, item_id>>] = t] ELSE cd,
      delivered |-> env.webhook /\ env.post_ok ]

\* send_discord_alert once its arguments are bound.  cd is _bazaar_cooldowns
\* (a (seller, item) pair maps to the time of its last alert, NULL when it has
\* none); env tells whether a webhook URL is configured and whether the POST
\* succeeds.  Gives the cooldowns left behind and whether the alert went out.
SendDiscordAlert(cd, seller, item_id, t, env) ==
    LET in_cooldown == /\ Truthy(seller)
                       /\ cd[<<seller, item_id>>] # NULL
                       /\ t - cd[<<seller, item_id>>] < COOLDOWN_MINUTES
        cd1 == IF Truthy(seller) /\ ~in_cooldown
               THEN [cd EXCEPT ![<<seller, item_id>>] = t] ELSE cd
    IN  [ cd |-> cd1,
          delivered |-> ~in_cooldown /\ env.webhook /\ env.post_ok ]

\* ----------------------------------------------------------- check_alerts
OrZero(x) == IF x = NULL THEN 0 ELSE x

Min2(a, b) == IF a < b THEN a ELSE b

\* min of the non-zero prices; 0 when there is none.
BestPrice(mp, bp) ==
    IF mp > 0 /\ bp > 0 THEN Min2(mp, bp)
    ELSE IF mp > 0 THEN mp
    ELSE IF bp > 0 THEN bp
    ELSE 0

ConditionMetInclusive(al, best) ==
    \/ al.condition = "below" /\ best <= al.target_price
    \/ al.condition = "above" /\ best >= al.target_price

ConditionMet(al, best) ==
    \/ al.condition = "below" /\ best < al.target_price
    \/ al.condition = "above" /\ best > al.target_price

IsSameId(al, best_id) ==
    IF ~Truthy(al.last_triggered_id) /\ ~Truthy(best_id) THEN TRUE
    ELSE IF Truthy(best_id) /\ Truthy(al.last_triggered_id)
    THEN al.last_triggered_id = best_id
    ELSE FALSE

HasChanged(al, best, best_id) ==
    ~(al.last_triggered_price = best /\ IsSameId(al, best_id))

\* time_since_last > timedelta(minutes=5); timedelta(hours=999) with no last time
IsExpired(al, t) ==
    IF al.last_triggered_at # NULL THEN t - al.last_triggered_at > THROTTLE_MINUTES
    ELSE TRUE

ShouldNotify(al, best, best_id, t) == HasChanged(al, best, best_id) \/ IsExpired(al, t)

\* The body of the loop over active_alerts for alert a.  acc carries the
\* session's alert objects (tbl), alerts_triggered (triggered), the alerts whose
\* condition was met (met), the notifications that went out (sent), the
\* notifier's cooldowns (cd) and whether an exception has been raised.
EvalAlertDeactivating(a, acc, u, t, env) ==
    [acc EXCEPT !.tbl[a].is_active = FALSE, !.triggered = @ \cup {a}]

EvalAlert(a, acc, u, t, env) ==
    LET al == acc.tbl[a]
        best == BestPrice(OrZero(u.market_price), OrZero(u.bazaar_price))
        is_met == best > 0 /\ ConditionMet(al, best)
        notify == ~al.is_persistent \/ ShouldNotify(al, best, u.best_listing_id, t)
        al1 == IF al.is_persistent
               THEN [al EXCEPT !.last_triggered_price = best,
                               !.last_triggered_id = u.best_listing_id,
                               !.last_triggered_at = t]
               ELSE al
        raises == CallRaisesTypeError(SendCallKeywords, SendDiscordAlertParams)
        out == SendDiscordAlert(acc.cd, u.cheapest_bazaar_seller, u.item_id, t, env)
        al2 == IF al1.is_persistent THEN al1 ELSE [al1 EXCEPT !.is_active = FALSE]
    IN  IF ~is_met THEN acc
        ELSE IF ~notify THEN [acc EXCEPT !.met = @ \cup {a}]
        ELSE IF raises
        THEN [acc EXCEPT !.met = @ \cup {a}, !.tbl[a] = al1, !.raised = TRUE]
        ELSE [acc EXCEPT !.met = @ \cup {a},
                         !.tbl[a] = al2,
                         !.cd = out.cd,
                         !.sent = IF out.delivered THEN @ \cup {a} ELSE @,
                         !.triggered = @ \cup {a}]

RECURSIVE EvalAlerts(_, _, _, _, _)
EvalAlerts(todo, acc, updates, t, env) ==
    IF todo = {} \/ acc.raised THEN acc
    ELSE LET a == CHOOSE x \in todo : \A y \in todo : x <= y
         IN  EvalAlerts(todo \ {a},
                        EvalAlert(a, acc, updates[acc.tbl[a].item_id], t, env),
                        updates, t, env)

\* What check_alerts holds when it enters the loop: the alert objects as
\* selected, alerts_triggered empty.
NewEvaluation(tbl, cd) ==
    [ tbl |-> tbl, triggered |-> {}, met |-> {}, sent |-> {}, cd |-> cd,
      raised |-> FALSE ]

\* check_alerts(session, price_updates): updates maps the updated item ids to
\* their entries.  The session's changes reach the table at the commit that
\* ends the function; an exception leaves the function before it.
CheckAlerts(tbl, cd, updates, t, env) ==
    LET active == {a \in Alerts : tbl[a].item_id \in DOMAIN updates /\ tbl[a].is_active}
        acc == EvalAlerts(active, NewEvaluation(tbl, cd), updates, t, env)
    IN  [ alerts |-> IF acc.raised THEN tbl ELSE acc.tbl,
          cd |-> acc.cd,
          met |-> acc.met,
          sent |-> acc.sent,
          raised |-> acc.raised ]

\* ------------------------------------------------------------------ Init
Sellers == {7, 8}

\* An item row.  failure_count is INT DEFAULT 0; last_updated_at is a nullable
\* DATETIME that every processing of the item sets.
ItemRow(tr, fc, lu) ==
    [ is_tracked |-> tr, failure_count |-> fc, last_updated_at |-> lu,
      last_market_price |-> NULL, last_bazaar_price |-> NULL ]

\* The rows the model starts from, t being the time of the first state: a
\* tracked item, and untracked items never processed, one failure short of the
\* high threshold and one tick short of the end of the low backoff window, and
\* at the high threshold one tick short of the end of the high backoff window.
InitRows(t) ==
    { ItemRow(TRUE, 0, t - 1),
      ItemRow(FALSE, 0, NULL),
      ItemRow(FALSE, FAILURE_THRESHOLD_HIGH - 1, t + 2 * TickPeriod - BACKOFF_LOW_MINUTES),
      ItemRow(FALSE, FAILURE_THRESHOLD_HIGH, t + 2 * TickPeriod - BACKOFF_HIGH_MINUTES) }

TargetPrice == 150

\* An alert row as create_alert leaves it.
AlertRow(i, cond, persistent) ==
    [ item_id |-> i, target_price |-> TargetPrice, condition |-> cond,
      is_persistent |-> persistent, is_active |-> TRUE,
      last_triggered_price |-> NULL, last_triggered_id |-> NULL,
      last_triggered_at |-> NULL ]

ItemOfAlert(a) == ((a - 1) % NumItems) + 1

\* The alerts of the tick's model: alert a watches item a (cyclically); odd
\* alerts are one-shot 'below' alerts, even alerts recurring 'above' alerts.
InitAlerts ==
    [a \in Alerts |-> AlertRow(ItemOfAlert(a),
                               IF a % 2 = 1 THEN "below" ELSE "above",
                               a % 2 = 0)]

NoCooldowns == [k \in Sellers \X Items |-> NULL]

ConfigRateLimits == {1, 2}

TickInit ==
    /\ now = Now0
    /\ ticks = 0
    /\ api_rate_limit \in ConfigRateLimits
    /\ key_count \in 0..MaxKeys
    /\ items \in [Items -> InitRows(Now0)]
    /\ alerts = InitAlerts
    /\ bazaar_cooldowns = NoCooldowns
    /\ pc = "idle"
    /\ rate_limit = 0
    /\ tracked_items = {}
    /\ untracked_items = {}
    /\ price_updates = << >>
    /\ fetched = << >>
    /\ trig_log = [a \in Alerts |-> <<>>]
    /\ log = << >>

\* ------------------------------------------------------- update_all_prices
NotifierEnvs == [webhook : BOOLEAN, post_ok : BOOLEAN]

\* _process_items(session, batch) at time t with the sources answering feed: the rows
\* after its commit, the entries get_items returned and the updates returned.
ProcessItems(batch, feed, t) ==
    LET data == [i \in batch |-> FetchSingleItem(feed[i])]
    IN  /\ fetched' = data
        /\ items' = [i \in Items |-> IF i \in batch
                                     THEN ProcessedItem(items[i], data[i], t)
                                     ELSE items[i]]
        /\ price_updates' = [i \in batch |-> PriceUpdate(i, data[i])]

\* logger.info("Rate Limit Config: ... Effective Limit: {rate_limit} req/min.")
RateLimitConfig(n, limit) == [tick |-> n, kind |-> "effective_limit", value |-> limit]

\* The job fires: configuration, the tracked items, phase 1 up to its commit.
StartTick ==
    /\ pc = "idle"
    /\ ticks < MaxTicks
    /\ ticks' = ticks + 1
    /\ now' = now + TickPeriod
    /\ rate_limit' = EffectiveLimit(api_rate_limit, key_count)
    /\ tracked_items' = {i \in Items : items[i].is_tracked}
    /\ untracked_items' = {}
    /\ \E feed \in [tracked_items' -> TickFeeds] : ProcessItems(tracked_items', feed, now + TickPeriod)
    /\ pc' = IF tracked_items' = {} THEN "phase2" ELSE "alerts1"
    /\ log' = Append(log, RateLimitConfig(ticks + 1, rate_limit'))
    /\ UNCHANGED <<api_rate_limit, key_count, alerts, bazaar_cooldowns, trig_log>>
    /\ UNCHANGED <<rateVars, raceVars, schedVars, fetchVars, batchVars, gatherVars, histVars, crawlVars, keyVars, notifyVars, trackVars, wsVars, writeVars>>

\* The trigger records an evaluation adds to the log.
Logged(res, a) ==
    IF a \in res.met
    THEN <<[price |-> BestPrice(OrZero(price_updates[alerts[a].item_id].market_price),
                                OrZero(price_updates[alerts[a].item_id].bazaar_price)),
            id |-> price_updates[alerts[a].item_id].best_listing_id,
            at |-> now,
            sent |-> a \in res.sent]>>
    ELSE <<>>

\* await self.check_alerts(session, updates) inside the tick: an exception of
\* check_alerts leaves update_all_prices, and the job ends.
TickCheckAlerts(next_pc) ==
    \E env \in NotifierEnvs :
        LET res == CheckAlerts(alerts, bazaar_cooldowns, price_updates, now, env)
        IN  /\ alerts' = res.alerts
            /\ bazaar_cooldowns' = res.cd
            /\ trig_log' = [a \in Alerts |-> trig_log[a] \o Logged(res, a)]
            /\ pc' = IF res.raised THEN "idle" ELSE next_pc
            /\ UNCHANGED <<now, ticks, api_rate_limit, key_count, items, rate_limit,
                           tracked_items, untracked_items, price_updates, fetched, log>>
            /\ UNCHANGED <<rateVars, raceVars, schedVars, fetchVars, batchVars, gatherVars, histVars, crawlVars, keyVars, notifyVars, trackVars, wsVars, writeVars>>

CheckPriorityAlerts ==
    /\ pc = "alerts1"
    /\ TickCheckAlerts("phase2")

\* Phase 2: the spare capacity, the backfill query, its batch up to the commit.
Backfill ==
    /\ pc = "phase2"
    /\ LET remaining_capacity == RemainingCapacity(rate_limit, Cardinality(tracked_items))
       IN  IF remaining_capacity > 0
           THEN \E S \in SUBSET Items :
                  /\ IsOrderedLimit(S, EligibleItems(items, now), items, remaining_capacity)
                  /\ untracked_items' = S
                  /\ IF S = {}
                     THEN /\ pc' = "idle"
                          /\ UNCHANGED <<items, price_updates, fetched>>
                     ELSE /\ pc' = "alerts2"
                          /\ \E feed \in [S -> TickFeeds] : ProcessItems(S, feed, now)
           ELSE /\ pc' = "idle"
                /\ UNCHANGED <<items, untracked_items, price_updates, fetched>>
    /\ UNCHANGED <<now, ticks, api_rate_limit, key_count, alerts, bazaar_cooldowns,
                   rate_limit, tracked_items, trig_log, log>>
    /\ UNCHANGED <<rateVars, raceVars, schedVars, fetchVars, batchVars, gatherVars, histVars, crawlVars, keyVars, notifyVars, trackVars, wsVars, writeVars>>

CheckRoutineAlerts ==
    /\ pc = "alerts2"
    /\ TickCheckAlerts("idle")

TickNext == StartTick \/ CheckPriorityAlerts \/ Backfill \/ CheckRoutineAlerts

\* ------------------------------------------------- the shared rate counter
\* Request tasks share the counter "rate_limit:torn_api": the tasks get_items
\* gathers, and every other caller of _request and _request_v2.
NumCallers == 2
MaxRequests == 4
MaxWindows == 1

Callers == 1..NumCallers

RateInit ==
    /\ redis_count = 0
    /\ redis_ttl = FALSE
    /\ redis_window = 0
    /\ req_pc = [c \in Callers |-> "idle"]
    /\ req_limit = [c \in Callers |-> 0]
    /\ req_current = [c \in Callers |-> 0]
    /\ req_window = [c \in Callers |-> 0]
    /\ requests = 0
    /\ permitted = [w \in 0..MaxWindows |-> 0]

\* The decision taken on the counter's value before the increment.
AllowedBeforeIncrement(current, limit) == ~(current - 1 > limit)

\* if current > limit: return False; return True
Allowed(current, limit) == ~(current > limit)

\* _request_v2 up to the call of check_rate_limit: limit = base_limit * key_count
RequestV2(c) ==
    /\ req_pc[c] = "idle"
    /\ requests < MaxRequests
    /\ requests' = requests + 1
    /\ req_limit' = [req_limit EXCEPT ![c] = EffectiveLimit(api_rate_limit, key_count)]
    /\ req_pc' = [req_pc EXCEPT ![c] = "incr"]
    /\ UNCHANGED <<redis_count, redis_ttl, redis_window, req_current, req_window, permitted>>
    /\ UNCHANGED <<tickVars, raceVars, schedVars, fetchVars, batchVars, gatherVars, histVars, crawlVars, keyVars, notifyVars, trackVars, wsVars, writeVars>>

\* current = await self.client.incr(key): Redis increments and answers in one step
Incr(c) ==
    /\ req_pc[c] = "incr"
    /\ redis_count' = redis_count + 1
    /\ req_current' = [req_current EXCEPT ![c] = redis_count + 1]
    /\ req_window' = [req_window EXCEPT ![c] = redis_window]
    /\ req_pc' = [req_pc EXCEPT ![c] = "expire"]
    /\ UNCHANGED <<redis_ttl, redis_window, req_limit, requests, permitted>>
    /\ UNCHANGED <<tickVars, raceVars, schedVars, fetchVars, batchVars, gatherVars, histVars, crawlVars, keyVars, notifyVars, trackVars, wsVars, writeVars>>

\* if current == 1: await self.client.expire(key, period)
Expire(c) ==
    /\ req_pc[c] = "expire"
    /\ redis_ttl' = IF req_current[c] = 1 /\ redis_count > 0 THEN TRUE ELSE redis_ttl
    /\ req_pc' = [req_pc EXCEPT ![c] = "decide"]
    /\ UNCHANGED <<redis_count, redis_window, req_limit, req_current, req_window,
                   requests, permitted>>
    /\ UNCHANGED <<tickVars, raceVars, schedVars, fetchVars, batchVars, gatherVars, histVars, crawlVars, keyVars, notifyVars, trackVars, wsVars, writeVars>>

\* The answer of check_rate_limit; _request_v2 goes on to the request when allowed.
Decide(c) ==
    /\ req_pc[c] = "decide"
    /\ permitted' = IF Allowed(req_current[c], req_limit[c])
                    THEN [permitted EXCEPT ![req_window[c]] = @ + 1]
                    ELSE permitted
    /\ req_pc' = [req_pc EXCEPT ![c] = "idle"]
    /\ UNCHANGED <<redis_count, redis_ttl, redis_window, req_limit, req_current,
                   req_window, requests>>
    /\ UNCHANGED <<tickVars, raceVars, schedVars, fetchVars, batchVars, gatherVars, histVars, crawlVars, keyVars, notifyVars, trackVars, wsVars, writeVars>>

\* The period given to expire has passed: Redis drops the key.
KeyExpires ==
    /\ redis_ttl
    /\ redis_window < MaxWindows
    /\ redis_count' = 0
    /\ redis_ttl' = FALSE
    /\ redis_window' = redis_window + 1
    /\ UNCHANGED <<req_pc, req_limit, req_current, req_window, requests, permitted>>
    /\ UNCHANGED <<tickVars, raceVars, schedVars, fetchVars, batchVars, gatherVars, histVars, crawlVars, keyVars, notifyVars, trackVars, wsVars, writeVars>>

RateNext ==
    \/ \E c \in Callers : RequestV2(c)
    \/ \E c \in Callers : Incr(c)
    \/ \E c \in Callers : Expire(c)
    \/ \E c \in Callers : Decide(c)
    \/ KeyExpires

\* --------------------------------------- the two callers of check_alerts
\* The worker's tick and the push feed's message handler run in two processes,
\* each with its own database session and its own notifier.  check_alerts is
\* taken at its awaits: the select, each pass of the loop, the commit.
Evaluators == {"tick", "push"}

\* minPrice of a push message
PushPrices == {100, 200}

\* The alerts of this model all watch item 1: odd alerts are one-shot 'above'
\* alerts, even alerts recurring 'below' alerts.
RaceAlerts ==
    [a \in Alerts |-> AlertRow(1, IF a % 2 = 1 THEN "above" ELSE "below", a % 2 = 0)]

\* A notifier with a webhook configured whose POST succeeds.
Delivering == [webhook |-> TRUE, post_ok |-> TRUE]

RaceInit ==
    /\ ev_pc = [p \in Evaluators |-> "idle"]
    /\ ev_updates = [p \in Evaluators |-> << >>]
    /\ ev_todo = [p \in Evaluators |-> {}]
    /\ ev_acc = [p \in Evaluators |-> NewEvaluation(alerts, NoCooldowns)]
    /\ ev_overlap = FALSE

\* The payload _handle_message builds for check_alerts.
AlertPayload(it, min_price) ==
    [ item_id |-> 1,
      market_price |-> min_price,
      bazaar_price |-> OrZero(it.last_bazaar_price),
      cheapest_bazaar_seller |-> NULL,
      best_listing_id |-> NULL ]

\* The tick's _process_items for item 1, up to its commit.
TickProcessItems ==
    /\ ev_pc["tick"] = "idle"
    /\ \E feed \in TickFeeds :
         LET data == FetchSingleItem(feed)
         IN  /\ items' = [items EXCEPT ![1] = ProcessedItem(items[1], data, now)]
             /\ ev_updates' = [ev_updates EXCEPT !["tick"] = [i \in {1} |-> PriceUpdate(1, data)]]
    /\ ev_pc' = [ev_pc EXCEPT !["tick"] = "select"]
    /\ UNCHANGED <<now, ticks, api_rate_limit, key_count, alerts, bazaar_cooldowns, pc,
                   rate_limit, tracked_items, untracked_items, price_updates, fetched,
                   trig_log, log, ev_todo, ev_acc, ev_overlap>>
    /\ UNCHANGED <<rateVars, schedVars, fetchVars, batchVars, gatherVars, histVars, crawlVars, keyVars, notifyVars, trackVars, wsVars, writeVars>>

\* _handle_message for an update of item 1, up to the call of check_alerts.
HandleMessage ==
    /\ ev_pc["push"] = "idle"
    /\ \E min_price \in PushPrices :
         /\ items' = [items EXCEPT ![1].last_market_price = min_price]
         /\ ev_updates' = [ev_updates EXCEPT
                             !["push"] = [i \in {1} |-> AlertPayload(items[1], min_price)]]
    /\ ev_pc' = [ev_pc EXCEPT !["push"] = "select"]
    /\ UNCHANGED <<now, ticks, api_rate_limit, key_count, alerts, bazaar_cooldowns, pc,
                   rate_limit, tracked_items, untracked_items, price_updates, fetched,
                   trig_log, log, ev_todo, ev_acc, ev_overlap>>
    /\ UNCHANGED <<rateVars, schedVars, fetchVars, batchVars, gatherVars, histVars, crawlVars, keyVars, notifyVars, trackVars, wsVars, writeVars>>

SelectAllActiveAlerts(p) ==
    /\ ev_pc[p] = "select"
    /\ LET active == {a \in Alerts : alerts[a].is_active}
       IN  /\ ev_todo' = [ev_todo EXCEPT ![p] = active]
           /\ ev_pc' = [ev_pc EXCEPT ![p] = IF active = {} THEN "done" ELSE "loop"]
    /\ ev_acc' = [ev_acc EXCEPT
                    ![p] = NewEvaluation(alerts, IF p = "tick" THEN bazaar_cooldowns
                                                 ELSE NoCooldowns)]
    /\ ev_overlap' = (ev_overlap \/ \E q \in Evaluators \ {p} : ev_pc[q] \in {"loop", "commit"})
    /\ UNCHANGED <<tickVars, ev_updates>>
    /\ UNCHANGED <<rateVars, schedVars, fetchVars, batchVars, gatherVars, histVars, crawlVars, keyVars, notifyVars, trackVars, wsVars, writeVars>>

\* check_alerts selects the active alerts of the updated items into its session.
SelectActiveAlerts(p) ==
    /\ ev_pc[p] = "select"
    /\ LET active == {a \in Alerts : /\ alerts[a].item_id \in DOMAIN ev_updates[p]
                                     /\ alerts[a].is_active}
       IN  /\ ev_todo' = [ev_todo EXCEPT ![p] = active]
           /\ ev_pc' = [ev_pc EXCEPT ![p] = IF active = {} THEN "done" ELSE "loop"]
    /\ ev_acc' = [ev_acc EXCEPT
                    ![p] = NewEvaluation(alerts, IF p = "tick" THEN bazaar_cooldowns
                                                 ELSE NoCooldowns)]
    /\ ev_overlap' = (ev_overlap \/ \E q \in Evaluators \ {p} : ev_pc[q] \in {"loop", "commit"})
    /\ UNCHANGED <<tickVars, ev_updates>>
    /\ UNCHANGED <<rateVars, schedVars, fetchVars, batchVars, gatherVars, histVars, crawlVars, keyVars, notifyVars, trackVars, wsVars, writeVars>>

\* One pass of the loop over active_alerts, the notification included.  An
\* exception leaves check_alerts: it ends the tick, the handler logs it.
EvaluateAlert(p) ==
    /\ ev_pc[p] = "loop"
    /\ LET a == CHOOSE x \in ev_todo[p] : \A y \in ev_todo[p] : x <= y
           acc == EvalAlert(a, ev_acc[p], ev_updates[p][ev_acc[p].tbl[a].item_id],
                            now, Delivering)
       IN  /\ ev_acc' = [ev_acc EXCEPT ![p] = acc]
           /\ ev_todo' = [ev_todo EXCEPT ![p] = @ \ {a}]
           /\ bazaar_cooldowns' = IF p = "tick" THEN acc.cd ELSE bazaar_cooldowns
           /\ ev_pc' = [ev_pc EXCEPT ![p] = IF acc.raised THEN "done"
                                            ELSE IF ev_todo[p] = {a} THEN "commit"
                                            ELSE "loop"]
    /\ UNCHANGED <<now, ticks, api_rate_limit, key_count, items, alerts, pc, rate_limit,
                   tracked_items, untracked_items, price_updates, fetched, trig_log,
                   log, ev_updates, ev_overlap>>
    /\ UNCHANGED <<rateVars, schedVars, fetchVars, batchVars, gatherVars, histVars, crawlVars, keyVars, notifyVars, trackVars, wsVars, writeVars>>

\* if alerts_triggered: await session.commit() -- the rows the session changed
\* are written over the table's.
CommitAlerts(p) ==
    /\ ev_pc[p] = "commit"
    /\ alerts' = [a \in Alerts |-> IF a \in ev_acc[p].triggered
                                   THEN ev_acc[p].tbl[a] ELSE alerts[a]]
    /\ ev_pc' = [ev_pc EXCEPT ![p] = "done"]
    /\ UNCHANGED <<now, ticks, api_rate_limit, key_count, items, bazaar_cooldowns, pc,
                   rate_limit, tracked_items, untracked_items, price_updates, fetched,
                   trig_log, log, ev_updates, ev_todo, ev_acc, ev_overlap>>
    /\ UNCHANGED <<rateVars, schedVars, fetchVars, batchVars, gatherVars, histVars, crawlVars, keyVars, notifyVars, trackVars, wsVars, writeVars>>

RaceNext ==
    \/ TickProcessItems
    \/ HandleMessage
    \/ \E p \in Evaluators : SelectActiveAlerts(p)
    \/ \E p \in Evaluators : EvaluateAlert(p)
    \/ \E p \in Evaluators : CommitAlerts(p)

\* ------------------------------------------------------ the job scheduler
\* The scheduler of app/main.py.  Job 0 is the interval job "price_check_job";
\* jobs 1, 2, ... are the date jobs run_crawler_now adds, each a job of its
\* own.  The scheduler runs at most one instance of a job at a time and hands
\* the instances of different jobs to different threads of its pool.
MaxFirings == 2
MaxManual == 2

Jobs == 0..MaxManual

SchedInit ==
    /\ sched_fired = 0
    /\ sched_manual = 0
    /\ sched_skipped = 0
    /\ job_pc = [j \in Jobs |-> "none"]
    /\ job_pos = [j \in Jobs |-> 0]
    /\ job_dirty = [j \in Jobs |-> {}]

Running == {j \in Jobs : job_pc[j] = "running"}

\* The interval trigger comes due: the run is skipped while an instance of the
\* job is still running.
IntervalDue ==
    /\ sched_fired < MaxFirings
    /\ sched_fired' = sched_fired + 1
    /\ IF job_pc[0] = "running"
       THEN /\ sched_skipped' = sched_skipped + 1
            /\ UNCHANGED <<job_pc, job_pos>>
       ELSE /\ job_pc' = [job_pc EXCEPT ![0] = "running"]
            /\ job_pos' = [job_pos EXCEPT ![0] = 0]
            /\ UNCHANGED sched_skipped
    /\ UNCHANGED <<sched_manual, job_dirty>>
    /\ UNCHANGED <<tickVars, rateVars, raceVars, fetchVars, batchVars, gatherVars, histVars, crawlVars, keyVars, notifyVars, trackVars, wsVars, writeVars>>

\* POST /api/crawler/run: scheduler.add_job(scheduled_price_check, 'date')
run_crawler_now ==
    /\ sched_manual < MaxManual
    /\ sched_manual' = sched_manual + 1
    /\ job_pc' = [job_pc EXCEPT ![sched_manual + 1] = "running"]
    /\ job_pos' = [job_pos EXCEPT ![sched_manual + 1] = 0]
    /\ UNCHANGED <<sched_fired, sched_skipped, job_dirty>>
    /\ UNCHANGED <<tickVars, rateVars, raceVars, fetchVars, batchVars, gatherVars, histVars, crawlVars, keyVars, notifyVars, trackVars, wsVars, writeVars>>

\* scheduled_price_check handles its next tracked item: the item's rows are
\* modified in the session of this execution.
UpdateTrackedItem(j) ==
    /\ job_pc[j] = "running"
    /\ job_pos[j] < NumItems
    /\ job_pos' = [job_pos EXCEPT ![j] = @ + 1]
    /\ job_dirty' = [job_dirty EXCEPT ![j] = @ \cup {job_pos[j] + 1}]
    /\ UNCHANGED <<sched_fired, sched_manual, sched_skipped, job_pc>>
    /\ UNCHANGED <<tickVars, rateVars, raceVars, fetchVars, batchVars, gatherVars, histVars, crawlVars, keyVars, notifyVars, trackVars, wsVars, writeVars>>

\* db.commit() after the loop, and the end of the execution.
CommitTrackedItems(j) ==
    /\ job_pc[j] = "running"
    /\ job_pos[j] = NumItems
    /\ job_dirty' = [job_dirty EXCEPT ![j] = {}]
    /\ job_pc' = [job_pc EXCEPT ![j] = IF j = 0 THEN "none" ELSE "done"]
    /\ UNCHANGED <<sched_fired, sched_manual, sched_skipped, job_pos>>
    /\ UNCHANGED <<tickVars, rateVars, raceVars, fetchVars, batchVars, gatherVars, histVars, crawlVars, keyVars, notifyVars, trackVars, wsVars, writeVars>>

SchedNext ==
    \/ IntervalDue
    \/ run_crawler_now
    \/ \E j \in Jobs : UpdateTrackedItem(j)
    \/ \E j \in Jobs : CommitTrackedItems(j)

\* ------------------------------------------------------ the specifications
\* The tick on its own.
NotRaised == [at |-> "none", item |-> 0]

\* The chunk handed to get_items: one task per item id.
NumTasks == 6

Tasks == 1..NumTasks

\* semaphore = asyncio.Semaphore(5)
CONCURRENCY_LIMIT == 5

GatherInit ==
    /\ task_pc = [k \in Tasks |-> "waiting"]
    /\ sem_value = CONCURRENCY_LIMIT
    /\ finished = << >>
    /\ task_result = [k \in Tasks |-> << >>]
    /\ results = << >>

HistInit ==
    /\ raw_rows = {}
    /\ year_start = 0
    /\ scan = << >>
    /\ request = [interval |-> "none", now |-> 0]
    /\ response = << >>

\* No item checked yet, no execution running.
NoFetch == [item |-> 0, market_ok |-> TRUE, bazaar_ok |-> TRUE]

CrawlInit ==
    /\ all_items = [i \in Items |-> [last_checked |-> NULL, last_price |-> NULL]]
    /\ legacy_logs = {}
    /\ scan_minutes = 1
    /\ crawl_pc = "idle"
    /\ crawl_time = Now0
    /\ crawl_cycles = 0
    /\ crawler_items = << >>
    /\ db_session = [items |-> all_items, logs |-> legacy_logs]
    /\ fetch_result = NoFetch

KeyInit ==
    /\ rotation_index = 0
    /\ key_uses = [w \in 0..MaxWindows |-> [k \in 0..(MaxKeys - 1) |-> 0]]

NoCall == [seller |-> NULL, item_id |-> 0, delivered |-> FALSE, since |-> NULL]

NotifyInit ==
    /\ last_delivered = [k \in Sellers \X Items |-> NULL]
    /\ call_outcome = NoCall

NoOp == [op |-> "none", item_id |-> 0, was_tracked |-> FALSE]

\* Item 1 in the catalog and tracked, the other items not yet synced; no alert.
TrackInit ==
    /\ catalog = [i \in Items |-> [exists |-> i = 1, is_tracked |-> i = 1, name |-> 0]]
    /\ price_alerts = {}
    /\ track_ops = 0
    /\ last_op = NoOp

\* self.running = True, before the first iteration of the loop.
WsInit ==
    /\ ws_pc = "top"
    /\ ws_token = FALSE
    /\ ws_attempt = FALSE
    /\ ws_event = "none"
    /\ ws_snapshot = {}
    /\ ws_sent = {}
    /\ subscribed_items = {}
    /\ ws_handled = FALSE

WriteInit ==
    /\ wr_pc = "idle"
    /\ wr_loaded = ItemRow(TRUE, 0, NULL)
    /\ wr_fetched = FetchSingleItem([market |-> NoAnswer, bazaar |-> NoAnswer])
    /\ wr_pushes = 0
    /\ wr_epoch = 0
    /\ wr_lost = FALSE

FetchInit == fetch_pc = [i \in Items |-> "none"]

BatchInit ==
    /\ price_logs = {}
    /\ batch_pc = "idle"
    /\ chunk = {}
    /\ sess_items = << >>
    /\ sess_logs = {}
    /\ batches = 0
    /\ raised = NotRaised

Init == TickInit /\ RateInit /\ RaceInit /\ SchedInit /\ FetchInit /\ BatchInit /\ GatherInit /\ NotifyInit /\ TrackInit /\ WsInit /\ WriteInit /\ KeyInit /\ CrawlInit /\ HistInit

Next == TickNext

Spec == Init /\ [][Next]_vars

\* The configuration and the tables the other specifications start from.
Settled ==
    /\ now = Now0
    /\ ticks = 0
    /\ api_rate_limit \in ConfigRateLimits
    /\ key_count \in 0..MaxKeys
    /\ items = [i \in Items |-> ItemRow(TRUE, 0, Now0 - 1)]
    /\ bazaar_cooldowns = NoCooldowns
    /\ pc = "idle"
    /\ rate_limit = 0
    /\ tracked_items = {}
    /\ untracked_items = {}
    /\ price_updates = << >>
    /\ fetched = << >>
    /\ trig_log = [a \in Alerts |-> <<>>]
    /\ log = << >>

\* Request tasks on the shared rate counter.
RateSpecInit == Settled /\ alerts = InitAlerts /\ RateInit /\ RaceInit /\ SchedInit /\ FetchInit /\ BatchInit /\ GatherInit /\ NotifyInit /\ TrackInit /\ WsInit /\ WriteInit /\ KeyInit /\ CrawlInit /\ HistInit

SpecRate == RateSpecInit /\ [][RateNext]_vars

\* The tick and the push feed evaluating the alerts of one item.
RaceSpecInit == Settled /\ alerts = RaceAlerts /\ RateInit /\ RaceInit /\ SchedInit /\ FetchInit /\ BatchInit /\ GatherInit /\ NotifyInit /\ TrackInit /\ WsInit /\ WriteInit /\ KeyInit /\ CrawlInit /\ HistInit

SpecRace == RaceSpecInit /\ [][RaceNext]_vars

\* The scheduler of app/main.py with its manual trigger.
SchedSpecInit == Settled /\ alerts = InitAlerts /\ RateInit /\ RaceInit /\ SchedInit /\ FetchInit /\ BatchInit /\ GatherInit /\ NotifyInit /\ TrackInit /\ WsInit /\ WriteInit /\ KeyInit /\ CrawlInit /\ HistInit

SpecSched == SchedSpecInit /\ [][SchedNext]_vars

\* --------------------------------------------------------------------------
\* The credential endpoints, each request served between two runs of the job.
\* --------------------------------------------------------------------------

\* POST /settings/apikeys: one more active key.
create_api_key ==
    /\ pc = "idle"
    /\ key_count < MaxKeys
    /\ key_count' = key_count + 1
    /\ UNCHANGED <<now, ticks, api_rate_limit, items, alerts, bazaar_cooldowns, pc,
                   rate_limit, tracked_items, untracked_items, price_updates, fetched,
                   trig_log, log>>
    /\ UNCHANGED <<rateVars, raceVars, schedVars, fetchVars, batchVars, gatherVars, histVars, crawlVars, keyVars, notifyVars, trackVars, wsVars, writeVars>>

\* DELETE /settings/apikeys/{key_id}: one key less.
delete_api_key ==
    /\ pc = "idle"
    /\ key_count > 0
    /\ key_count' = key_count - 1
    /\ UNCHANGED <<now, ticks, api_rate_limit, items, alerts, bazaar_cooldowns, pc,
                   rate_limit, tracked_items, untracked_items, price_updates, fetched,
                   trig_log, log>>
    /\ UNCHANGED <<rateVars, raceVars, schedVars, fetchVars, batchVars, gatherVars, histVars, crawlVars, keyVars, notifyVars, trackVars, wsVars, writeVars>>

LimitNext == TickNext \/ create_api_key \/ delete_api_key

\* One tracked item, the others never checked.
LimitSpecInit ==
    /\ now = Now0
    /\ ticks = 0
    /\ api_rate_limit \in ConfigRateLimits
    /\ key_count \in 0..MaxKeys
    /\ items = [i \in Items |-> IF i = 1 THEN ItemRow(TRUE, 0, Now0 - 1)
                                          ELSE ItemRow(FALSE, 0, NULL)]
    /\ alerts = InitAlerts
    /\ bazaar_cooldowns = NoCooldowns
    /\ pc = "idle"
    /\ rate_limit = 0
    /\ tracked_items = {}
    /\ untracked_items = {}
    /\ price_updates = << >>
    /\ fetched = << >>
    /\ trig_log = [a \in Alerts |-> <<>>]
    /\ log = << >>
    /\ RateInit /\ RaceInit /\ SchedInit /\ FetchInit /\ BatchInit /\ GatherInit /\ NotifyInit /\ TrackInit /\ WsInit /\ WriteInit /\ KeyInit /\ CrawlInit /\ HistInit

SpecLimit == LimitSpecInit /\ [][LimitNext]_vars

\* --------------------------------------------------------------------------
\* The tick with the market requests of its priority items on the shared
\* rate counter.
\* --------------------------------------------------------------------------

\* logger.warning("Rate limit reached for Torn API")
RateLimitReached(n, i) == [tick |-> n, kind |-> "rate_limit_reached", value |-> i]

\* The job fires: configuration, the tracked items, one fetch task per item.
BudgetStartTick ==
    /\ pc = "idle"
    /\ ticks < MaxTicks
    /\ ticks' = ticks + 1
    /\ now' = now + TickPeriod
    /\ rate_limit' = EffectiveLimit(api_rate_limit, key_count)
    /\ tracked_items' = {i \in Items : items[i].is_tracked}
    /\ untracked_items' = {}
    /\ fetch_pc' = [i \in Items |-> IF items[i].is_tracked THEN "pending" ELSE "none"]
    /\ pc' = "fetch1"
    /\ log' = Append(log, RateLimitConfig(ticks + 1, rate_limit'))
    /\ UNCHANGED <<api_rate_limit, key_count, items, alerts, bazaar_cooldowns,
                   price_updates, fetched, trig_log>>
    /\ UNCHANGED <<rateVars, raceVars, schedVars, batchVars, gatherVars, histVars, crawlVars, keyVars, notifyVars, trackVars, wsVars, writeVars>>

\* _request_v2 of item i's task up to the answer of check_rate_limit.
RequestMarket(i) ==
    /\ pc = "fetch1"
    /\ fetch_pc[i] = "pending"
    /\ LET limit == EffectiveLimit(api_rate_limit, key_count)
           current == redis_count + 1
       IN  /\ redis_count' = current
           /\ redis_ttl' = IF current = 1 THEN TRUE ELSE redis_ttl
           /\ IF Allowed(current, limit)
              THEN /\ fetch_pc' = [fetch_pc EXCEPT ![i] = "allowed"]
                   /\ log' = log
              ELSE /\ fetch_pc' = [fetch_pc EXCEPT ![i] = "denied"]
                   /\ log' = Append(log, RateLimitReached(ticks, i))
    /\ UNCHANGED <<now, ticks, api_rate_limit, key_count, items, alerts, bazaar_cooldowns,
                   pc, rate_limit, tracked_items, untracked_items, price_updates, fetched,
                   trig_log>>
    /\ UNCHANGED <<redis_window, req_pc, req_limit, req_current, req_window, requests,
                   permitted>>
    /\ UNCHANGED <<raceVars, schedVars, batchVars, gatherVars, histVars, crawlVars, keyVars, notifyVars, trackVars, wsVars, writeVars>>

\* What the sources can answer for an item whose market request was denied or sent.
FeedsAfter(status) ==
    IF status = "denied" THEN {f \in TickFeeds : f.market = NoAnswer} ELSE TickFeeds

\* gather returns: the rest of _process_items for the priority items.
ProcessPriority ==
    /\ pc = "fetch1"
    /\ \A i \in tracked_items : fetch_pc[i] # "pending"
    /\ \E feed \in [tracked_items -> TickFeeds] :
          /\ \A i \in tracked_items : feed[i] \in FeedsAfter(fetch_pc[i])
          /\ ProcessItems(tracked_items, feed, now)
    /\ pc' = IF tracked_items = {} THEN "phase2" ELSE "alerts1"
    /\ UNCHANGED <<now, ticks, api_rate_limit, key_count, alerts, bazaar_cooldowns,
                   rate_limit, tracked_items, untracked_items, trig_log, log>>
    /\ UNCHANGED <<rateVars, raceVars, schedVars, fetchVars, batchVars, gatherVars, histVars, crawlVars, keyVars, notifyVars, trackVars, wsVars, writeVars>>

BudgetNext ==
    \/ BudgetStartTick
    \/ \E i \in Items : RequestMarket(i)
    \/ ProcessPriority
    \/ CheckPriorityAlerts
    \/ Backfill
    \/ KeyExpires

\* Every item tracked: the priority stage with nothing left to backfill.
BudgetSpecInit == Settled /\ alerts = InitAlerts /\ RateInit /\ RaceInit /\ SchedInit /\ FetchInit /\ BatchInit /\ GatherInit /\ NotifyInit /\ TrackInit /\ WsInit /\ WriteInit /\ KeyInit /\ CrawlInit /\ HistInit

SpecBudget == BudgetSpecInit /\ [][BudgetNext]_vars

\* --------------------------------------------------------------------------
\* One chunk of _process_items, step by step, with the calls that can raise.
\* --------------------------------------------------------------------------
MaxBatches == 2

\* db_inserts: the keys of a price update that price_logs has.
PriceLogRow(u, t) ==
    [ item_id |-> u.item_id, timestamp |-> t,
      market_price |-> u.market_price, bazaar_price |-> u.bazaar_price ]

\* The items table after the session closed on an exception with sess pending.
RolledBackFlushed(db, sess) ==
    [i \in DOMAIN db |-> IF i \in DOMAIN sess THEN sess[i] ELSE db[i]]

RolledBack(db, sess) == db

\* An exception leaves _process_items and update_all_prices; the session closes.
Raise(where, i) ==
    /\ raised' = [at |-> where, item |-> i]
    /\ items' = RolledBack(items, sess_items)
    /\ sess_items' = << >>
    /\ sess_logs' = {}
    /\ batch_pc' = "idle"
    /\ UNCHANGED price_logs

\* for i, chunk in enumerate(chunks): chunk_ids, the tracked items in one chunk
BeginChunk ==
    /\ batch_pc = "idle"
    /\ batches < MaxBatches
    /\ batches' = batches + 1
    /\ chunk' = {i \in Items : items[i].is_tracked}
    /\ now' = now + TickPeriod
    /\ batch_pc' = "fetch"
    /\ raised' = NotRaised
    /\ sess_items' = << >>
    /\ sess_logs' = {}
    /\ fetched' = << >>
    /\ price_updates' = << >>
    /\ UNCHANGED <<ticks, api_rate_limit, key_count, items, alerts, bazaar_cooldowns, pc,
                   rate_limit, tracked_items, untracked_items, trig_log, log>>
    /\ UNCHANGED price_logs
    /\ UNCHANGED <<rateVars, raceVars, schedVars, fetchVars, gatherVars, histVars, crawlVars, keyVars, notifyVars, trackVars, wsVars, writeVars>>

\* fetched_data = await torn_api_service.get_items(chunk_ids): gather returns
\* every task's result, or raises what one task raised (a 200 answer whose body
\* response.json() cannot parse, a listing without a price).
GetItems ==
    /\ batch_pc = "fetch"
    /\ \/ \E feed \in [chunk -> TickFeeds] :
             /\ fetched' = [i \in chunk |-> FetchSingleItem(feed[i])]
             /\ batch_pc' = "save"
             /\ UNCHANGED <<items, price_logs, sess_items, sess_logs, raised>>
       \/ \E i \in chunk :
             /\ Raise("get_items", i)
             /\ UNCHANGED fetched
    /\ UNCHANGED <<now, ticks, api_rate_limit, key_count, alerts, bazaar_cooldowns, pc,
                   rate_limit, tracked_items, untracked_items, price_updates, trig_log, log>>
    /\ UNCHANGED <<chunk, batches>>
    /\ UNCHANGED <<rateVars, raceVars, schedVars, fetchVars, gatherVars, histVars, crawlVars, keyVars, notifyVars, trackVars, wsVars, writeVars>>

\* for item in chunk: failure count, price update, item cache
SaveItems ==
    /\ batch_pc = "save"
    /\ sess_items' = [i \in chunk |-> ProcessedItem(items[i], fetched[i], now)]
    /\ price_updates' = [i \in chunk |-> PriceUpdate(i, fetched[i])]
    /\ batch_pc' = "insert"
    /\ UNCHANGED <<now, ticks, api_rate_limit, key_count, items, alerts, bazaar_cooldowns, pc,
                   rate_limit, tracked_items, untracked_items, fetched, trig_log, log>>
    /\ UNCHANGED <<price_logs, chunk, sess_logs, batches, raised>>
    /\ UNCHANGED <<rateVars, raceVars, schedVars, fetchVars, gatherVars, histVars, crawlVars, keyVars, notifyVars, trackVars, wsVars, writeVars>>

\* if price_updates: insert(PriceLog).values(db_inserts), then the trend queries
InsertPriceLogs ==
    /\ batch_pc = "insert"
    /\ \/ /\ sess_logs' = {PriceLogRow(price_updates[i], now) : i \in chunk}
          /\ batch_pc' = "commit"
          /\ UNCHANGED <<items, price_logs, sess_items, raised>>
       \/ Raise("insert", 0)
    /\ UNCHANGED <<now, ticks, api_rate_limit, key_count, alerts, bazaar_cooldowns, pc,
                   rate_limit, tracked_items, untracked_items, price_updates, fetched,
                   trig_log, log>>
    /\ UNCHANGED <<chunk, batches>>
    /\ UNCHANGED <<rateVars, raceVars, schedVars, fetchVars, gatherVars, histVars, crawlVars, keyVars, notifyVars, trackVars, wsVars, writeVars>>

\* await session.commit()
Commit ==
    /\ batch_pc = "commit"
    /\ \/ /\ items' = [i \in Items |-> IF i \in chunk THEN sess_items[i] ELSE items[i]]
          /\ price_logs' = price_logs \cup sess_logs
          /\ sess_items' = << >>
          /\ sess_logs' = {}
          /\ batch_pc' = "idle"
          /\ UNCHANGED raised
       \/ Raise("commit", 0)
    /\ UNCHANGED <<now, ticks, api_rate_limit, key_count, alerts, bazaar_cooldowns, pc,
                   rate_limit, tracked_items, untracked_items, price_updates, fetched,
                   trig_log, log>>
    /\ UNCHANGED <<chunk, batches>>
    /\ UNCHANGED <<rateVars, raceVars, schedVars, fetchVars, gatherVars, histVars, crawlVars, keyVars, notifyVars, trackVars, wsVars, writeVars>>

BatchNext == BeginChunk \/ GetItems \/ SaveItems \/ InsertPriceLogs \/ Commit

BatchSpecInit ==
    /\ Settled /\ api_rate_limit = 1 /\ key_count = 1
    /\ alerts = InitAlerts
    /\ RateInit /\ RaceInit /\ SchedInit /\ FetchInit /\ BatchInit /\ GatherInit /\ NotifyInit /\ TrackInit /\ WsInit /\ WriteInit /\ KeyInit /\ CrawlInit /\ HistInit

SpecBatch == BatchSpecInit /\ [][BatchNext]_vars

\* --------------------------------------------------------------------------
\* check_alerts on its own: calls with any batch of price updates, on alerts
\* active or not.
\* --------------------------------------------------------------------------

\* The prices of one price update: none, zero, below, at and above the target.
EvalQuotes ==
    { [market_price |-> q[1], bazaar_price |-> q[2]] :
        q \in { <<NULL, 0>>, <<0, 200>>, <<TargetPrice, 0>>, <<200, TargetPrice>>,
                <<100, 200>>, <<200, 100>> } }

\* One entry of price_updates.
QuoteUpdate(i, q) ==
    [ item_id |-> i,
      market_price |-> q.market_price,
      bazaar_price |-> q.bazaar_price,
      cheapest_bazaar_seller |-> NULL,
      best_listing_id |-> NULL ]

\* check_alerts(session, price_updates) is called with a batch that is not empty.
CallCheckAlerts ==
    /\ ev_pc["tick"] \in {"idle", "done"}
    /\ ticks < MaxTicks
    /\ ticks' = ticks + 1
    /\ now' = now + TickPeriod
    /\ \E batch \in SUBSET Items :
          /\ batch # {}
          /\ \E q \in [batch -> EvalQuotes] :
                ev_updates' = [ev_updates EXCEPT
                                 !["tick"] = [i \in batch |-> QuoteUpdate(i, q[i])]]
    /\ ev_pc' = [ev_pc EXCEPT !["tick"] = "select"]
    /\ UNCHANGED <<api_rate_limit, key_count, items, alerts, bazaar_cooldowns, pc,
                   rate_limit, tracked_items, untracked_items, price_updates, fetched,
                   trig_log, log, ev_todo, ev_acc, ev_overlap>>
    /\ UNCHANGED <<rateVars, schedVars, fetchVars, batchVars, gatherVars, histVars, crawlVars, keyVars, notifyVars, trackVars, wsVars, writeVars>>

EvalNext ==
    \/ CallCheckAlerts
    \/ SelectActiveAlerts("tick")
    \/ EvaluateAlert("tick")
    \/ CommitAlerts("tick")

\* The alerts of InitAlerts, each active or not.
EvalSpecInit ==
    /\ Settled /\ api_rate_limit = 1 /\ key_count = 1
    /\ \E act \in SUBSET Alerts :
          alerts = [a \in Alerts |-> [InitAlerts[a] EXCEPT !.is_active = a \in act]]
    /\ RateInit /\ RaceInit /\ SchedInit /\ FetchInit /\ BatchInit /\ GatherInit /\ NotifyInit /\ TrackInit /\ WsInit /\ WriteInit /\ KeyInit /\ CrawlInit /\ HistInit

SpecEval == EvalSpecInit /\ [][EvalNext]_vars

\* --------------------------------------------------------------------------
\* One call of get_items: the fetch_single_item tasks under the semaphore,
\* completing in any order, and the dict built from what gather returns.
\* --------------------------------------------------------------------------

\* What the sources answer for item id k: a market listing priced by the id,
\* and a bazaar listing for even ids.
TaskFeed(k) ==
    [ market |-> Answer(<<Listing(100 + k, 10 + k)>>),
      bazaar |-> IF k % 2 = 0 THEN Answer(<<Listing(200 + k, 7)>>) ELSE NoAnswer ]

SemaphoreAlwaysFree(value) == TRUE

\* asyncio.Semaphore: acquire returns at once while the counter is positive.
SemaphoreFree(value) == value > 0

\* async with semaphore: the task enters fetch_single_item's body.
Acquire(k) ==
    /\ task_pc[k] = "waiting"
    /\ SemaphoreFree(sem_value)
    /\ sem_value' = sem_value - 1
    /\ task_pc' = [task_pc EXCEPT ![k] = "running"]
    /\ UNCHANGED <<finished, task_result, results>>
    /\ UNCHANGED <<tickVars, rateVars, raceVars, schedVars, fetchVars, batchVars, histVars, crawlVars, keyVars, notifyVars, trackVars, wsVars, writeVars>>

\* return item_id, {...}: the task leaves the semaphore with its pair.
Return(k) ==
    /\ task_pc[k] = "running"
    /\ task_result' = [task_result EXCEPT ![k] = <<k, FetchSingleItem(TaskFeed(k))>>]
    /\ sem_value' = sem_value + 1
    /\ finished' = Append(finished, k)
    /\ task_pc' = [task_pc EXCEPT ![k] = "returned"]
    /\ UNCHANGED results
    /\ UNCHANGED <<tickVars, rateVars, raceVars, schedVars, fetchVars, batchVars, histVars, crawlVars, keyVars, notifyVars, trackVars, wsVars, writeVars>>

GatheredByCompletion(order, res) ==
    [i \in Tasks |-> res[order[i]][2]]

\* fetched_results = await asyncio.gather(*tasks), the pairs in the order of
\* the tasks; for item_id, data in fetched_results: results[item_id] = data
Gathered(order, res) ==
    LET fetched_results == [n \in Tasks |-> res[n]]
    IN  [i \in {fetched_results[n][1] : n \in Tasks} |->
            fetched_results[CHOOSE n \in Tasks : fetched_results[n][1] = i][2]]

Gather ==
    /\ \A k \in Tasks : task_pc[k] = "returned"
    /\ results = << >>
    /\ results' = Gathered(finished, task_result)
    /\ UNCHANGED <<task_pc, sem_value, finished, task_result>>
    /\ UNCHANGED <<tickVars, rateVars, raceVars, schedVars, fetchVars, batchVars, histVars, crawlVars, keyVars, notifyVars, trackVars, wsVars, writeVars>>

FetchNext ==
    \/ \E k \in Tasks : Acquire(k)
    \/ \E k \in Tasks : Return(k)
    \/ Gather

FetchSpecInit ==
    /\ Settled /\ api_rate_limit = 1 /\ key_count = 1
    /\ alerts = InitAlerts
    /\ RateInit /\ RaceInit /\ SchedInit /\ FetchInit /\ BatchInit /\ GatherInit /\ NotifyInit /\ TrackInit /\ WsInit /\ WriteInit /\ KeyInit /\ CrawlInit /\ HistInit

SpecFetch == FetchSpecInit /\ [][FetchNext]_vars

\* ------------------------------------------------------- claims on the tick
BothFailed(data) == ~data.status.market /\ ~data.status.bazaar

Max0(x) == IF x > 0 THEN x ELSE 0

\* C1: in every tick the number of items selected (priority plus backfill) is
\* at most effective_limit, unless the priority items alone exceed it, and then
\* the selected set is exactly the priority items: no backfill item is selected.
C1_SelectionWithinBudget ==
    ticks > 0 =>
        IF Cardinality(tracked_items) > EffectiveLimit(api_rate_limit, key_count)
        THEN untracked_items = {}
        ELSE Cardinality(tracked_items) + Cardinality(untracked_items)
                <= EffectiveLimit(api_rate_limit, key_count)

\* C1 witness: a tick whose priority items and backfill together fill the
\* budget exactly.
C1_Witness ==
    /\ pc = "alerts2"
    /\ tracked_items # {}
    /\ untracked_items # {}
    /\ Cardinality(tracked_items) + Cardinality(untracked_items)
          = EffectiveLimit(api_rate_limit, key_count)

\* C3: a non-priority item with failure_count at or above the high threshold
\* is never selected for backfill on a tick within high_backoff_window of its
\* last_checked time.
C3_HighBackoff ==
    [][pc = "phase2" =>
         \A i \in untracked_items' :
            ~ /\ items[i].failure_count >= FAILURE_THRESHOLD_HIGH
              /\ items[i].last_updated_at # NULL
              /\ now - items[i].last_updated_at < BACKOFF_HIGH_MINUTES]_vars

\* C3 witness: a backfill has run and passed over an untracked item at the
\* high threshold that is inside its window.
C3_Witness ==
    /\ pc = "alerts2"
    /\ \E i \in Items \ untracked_items :
          /\ ~items[i].is_tracked
          /\ items[i].failure_count >= FAILURE_THRESHOLD_HIGH
          /\ items[i].last_updated_at < now
          /\ now - items[i].last_updated_at < BACKOFF_HIGH_MINUTES

\* The items a step of the tick processes.
ProcessedInStep ==
    IF pc = "idle" THEN tracked_items'
    ELSE IF pc = "phase2" /\ pc' = "alerts2" THEN untracked_items'
    ELSE {}

\* C4: for every item processed in a tick, failure_count grows by exactly 1
\* when both sources failed and becomes exactly 0 when at least one source
\* succeeded; it never changes for an item that was not processed.
C4_FailureCount ==
    [][\A i \in Items :
         IF i \in ProcessedInStep
         THEN items'[i].failure_count =
                 (IF BothFailed(fetched'[i]) THEN items[i].failure_count + 1 ELSE 0)
         ELSE items'[i].failure_count = items[i].failure_count]_vars

\* C4 witness: an item that failed in two consecutive ticks after a tick-free
\* start at 0, and an item reset to 0 from the high threshold.
C4_Witness ==
    /\ ticks = 2
    /\ \E i \in DOMAIN fetched : BothFailed(fetched[i]) /\ items[i].failure_count = 2
    /\ \E j \in DOMAIN fetched :
          /\ ~BothFailed(fetched[j])
          /\ ~items[j].is_tracked
          /\ items[j].failure_count = 0
          /\ items[j].last_updated_at = now

OneShot(a) == ~alerts[a].is_persistent

SentCount(a) == Cardinality({k \in 1..Len(trig_log[a]) : trig_log[a][k].sent})

\* C5: a one-shot alert that triggers goes from is_active true to false and
\* never notifies again in a later evaluation.
C5_OneShotFiresOnce ==
    \A a \in Alerts :
        OneShot(a) /\ Len(trig_log[a]) >= 1 =>
            ~alerts[a].is_active /\ SentCount(a) <= 1

\* C6: for a recurring alert, two consecutive triggers with the same best price
\* and listing id within the throttle window produce exactly one notification;
\* a change of price or listing id, or a trigger after the window, produces a
\* second notification.
C6_RecurringThrottle ==
    \A a \in Alerts :
        ~OneShot(a) /\ Len(trig_log[a]) >= 2 =>
            LET e1 == trig_log[a][1]
                e2 == trig_log[a][2]
                same == /\ e1.price = e2.price
                        /\ e1.id = e2.id
                        /\ e2.at - e1.at <= THROTTLE_MINUTES
            IN  e1.sent /\ (e2.sent <=> ~same)

\* C7: whenever an active one-shot alert's condition is met in an evaluation,
\* its notification is sent and the alert is deactivated.
C7_OneShotAlwaysNotifies ==
    \A a \in Alerts :
        OneShot(a) =>
            \A k \in 1..Len(trig_log[a]) : trig_log[a][k].sent /\ ~alerts[a].is_active

\* ---------------------------------------------- claims on the rate counter
InFlight(c) == req_pc[c] \in {"expire", "decide"}

\* C2: however the request tasks' steps on the shared counter interleave, no
\* two tasks are handed the same count in one window, and the number of
\* requests allowed in one window never exceeds base_limit * key_count.
C2_BudgetNeverExceeded ==
    /\ \A w \in DOMAIN permitted : permitted[w] <= EffectiveLimit(api_rate_limit, key_count)
    /\ \A c, d \in Callers :
         c # d /\ InFlight(c) /\ InFlight(d) /\ req_window[c] = req_window[d]
           => req_current[c] # req_current[d]

\* A window's budget is used up, a task over it is about to be refused, and
\* another task is between its increment and its answer.
C2_Witness ==
    \E c, d \in Callers :
        /\ c # d
        /\ req_pc[c] = "decide"
        /\ req_current[c] > req_limit[c]
        /\ permitted[req_window[c]] = req_limit[c]
        /\ InFlight(d)
        /\ req_window[d] = req_window[c]

\* -------------------------------------- claims on the concurrent evaluation
\* What the two evaluations leave behind: the alerts table and, per alert, the
\* number of notifications that went out.
Outcome(tbl, sent1, sent2) ==
    [ alerts |-> tbl,
      notified |-> [a \in Alerts |-> (IF a \in sent1 THEN 1 ELSE 0)
                                     + (IF a \in sent2 THEN 1 ELSE 0)] ]

\* The outcome of running check_alerts for the first caller to its end and
\* then for the second, from the tables the model starts from.
Sequential(first, second) ==
    LET r1 == CheckAlerts(RaceAlerts, NoCooldowns, ev_updates[first], now, Delivering)
        r2 == CheckAlerts(r1.alerts, NoCooldowns, ev_updates[second], now, Delivering)
    IN  Outcome(r2.alerts, r1.sent, r2.sent)

BothDone == \A p \in Evaluators : ev_pc[p] = "done"

C9_SingleTickInProgress ==
    /\ Cardinality(Running) <= 1
    /\ \A j, k \in Jobs : j # k => job_dirty[j] \cap job_dirty[k] = {}

\* C11: a tick that starts sets the effective limit to the per-credential limit
\* times the number of active credentials as they are at that moment, a count of
\* zero counting as one, whatever the limit of the tick before was.
C11_LimitRecomputedEachTick ==
    [][ticks' # ticks =>
          /\ key_count = 0 => rate_limit' = api_rate_limit
          /\ key_count > 0 => rate_limit' = api_rate_limit * key_count
          /\ log'[Len(log')] = RateLimitConfig(ticks', rate_limit')]_vars

\* Two ticks in a row, the first under one credential and the second under two.
C11_Witness ==
    /\ ticks = 2
    /\ key_count = 2
    /\ rate_limit = 2 * api_rate_limit
    /\ \E m \in DOMAIN log : /\ log[m].kind = "effective_limit"
                             /\ log[m].tick = 1
                             /\ log[m].value = api_rate_limit
    /\ \E n \in DOMAIN log : /\ log[n].kind = "effective_limit"
                             /\ log[n].tick = 2
                             /\ log[n].value = 2 * api_rate_limit

\* C12: no request of a priority item is denied for budget reasons, also in a
\* tick whose priority items outnumber the effective limit.
C12_PriorityNeverDenied ==
    \A i \in tracked_items : fetch_pc[i] # "denied"

\* The lines of the log of tick n that tell of the budget being exceeded.
OverageReports(n) ==
    {m \in DOMAIN log : log[m].tick = n /\ log[m].kind \in {"over_budget", "rate_limit_reached"}}

\* C13: a tick whose priority items outnumber the effective limit ends without
\* a backfill stage and with the overage reported.
C13_OverageReported ==
    (pc = "idle" /\ ticks > 0 /\ Cardinality(tracked_items) > rate_limit) =>
        /\ untracked_items = {}
        /\ OverageReports(ticks) # {}

\* C14: no price_logs row is persisted for an item by a chunk in which neither
\* source yielded a price for it.
C14_NoRowWithoutPrice ==
    \A r \in price_logs : r.market_price > 0 \/ r.bazaar_price > 0

\* C15: when the fetch of one item of a chunk fails, the chunk is not aborted:
\* its other items are fetched and persisted.
C15_FetchFailureIsolated ==
    (batch_pc = "idle" /\ raised.at = "get_items") =>
        \A i \in chunk \ {raised.item} : items[i].last_updated_at = now

\* The price_logs row an item's cache was written with.
RowOf(i) ==
    [ item_id |-> i, timestamp |-> items[i].last_updated_at,
      market_price |-> items[i].last_market_price,
      bazaar_price |-> items[i].last_bazaar_price ]

\* C16: the writes of a chunk are persisted together or not at all: at every
\* moment, also after a failure half way, an item holds the cache values of a
\* chunk exactly when that chunk's price_logs row for it is persisted.
C16_ChunkAtomic ==
    /\ \A i \in Items : items[i].last_updated_at > Now0 => RowOf(i) \in price_logs
    /\ \A r \in price_logs : items[r.item_id].last_updated_at >= r.timestamp

\* A chunk committed, and a later one failed after the session had changed
\* items and inserted rows.
C16_Witness ==
    /\ batch_pc = "idle"
    /\ raised.at = "commit"
    /\ price_logs # {}
    /\ \E i \in chunk : RowOf(i) \in price_logs /\ items[i].last_updated_at < now

\* The one-shot alerts whose condition the step's evaluation met without a
\* notification being delivered for them.
Undelivered ==
    {a \in Alerts : /\ ~alerts[a].is_persistent
                    /\ Len(trig_log'[a]) > Len(trig_log[a])
                    /\ ~trig_log'[a][Len(trig_log'[a])].sent}

\* C17: an evaluation in which the notification of an alert is not delivered
\* still returns to the tick, which goes on to its next stage, with the alert's
\* state change committed.
C17_DeliveryFailureContained ==
    [][(pc = "alerts1" /\ Undelivered # {}) =>
          /\ pc' = "phase2"
          /\ \A a \in Undelivered : ~alerts'[a].is_active]_vars

\* ------------------------------------------------ claims on check_alerts
\* The evaluation in progress or last made.
Evaluation == ev_acc["tick"]

\* C18: is_active goes from true to false only for a one-shot alert that the
\* evaluation has just triggered; a recurring alert stays active; nothing an
\* evaluation does sets is_active from false to true.
C18_ActiveOnlyFalls ==
    [][\A a \in Alerts :
          /\ (alerts[a].is_active /\ ~alerts'[a].is_active) =>
                 (~alerts[a].is_persistent /\ a \in Evaluation.met)
          /\ (alerts[a].is_active /\ alerts[a].is_persistent) => alerts'[a].is_active
          /\ ~alerts[a].is_active => ~alerts'[a].is_active]_vars

\* An evaluation has ended in which a recurring alert triggered and is still
\* active, and an inactive alert whose item's price meets its condition is
\* still inactive.
C18_Witness ==
    /\ ev_pc["tick"] = "done"
    /\ \E a \in Alerts : /\ alerts[a].is_persistent
                          /\ a \in Evaluation.met
                          /\ alerts[a].is_active
    /\ \E b \in Alerts :
          /\ ~alerts[b].is_active
          /\ alerts[b].item_id \in DOMAIN ev_updates["tick"]
          /\ alerts[b].condition = "below"
          /\ ev_updates["tick"][alerts[b].item_id].market_price = 100

\* The alerts whose item is not in the batch of the call.
OutsideBatch == {a \in Alerts : alerts[a].item_id \notin DOMAIN ev_updates'["tick"]}

\* C19: an evaluation over a batch leaves every alert whose item is not in the
\* batch as it was: not selected, not triggered, not notified, its row unchanged.
C19_OutsideBatchUntouched ==
    [][\A a \in OutsideBatch :
          /\ alerts'[a] = alerts[a]
          /\ ev_pc'["tick"] \in {"loop", "commit", "done"} =>
                /\ a \notin ev_todo'["tick"]
                /\ a \notin Evaluation'.met \cup Evaluation'.sent \cup Evaluation'.triggered
                /\ Evaluation'.tbl[a] = alerts[a]]_vars

\* An evaluation has ended in which an alert's condition was met while an
\* active alert watches an item outside the batch.
C19_Witness ==
    /\ ev_pc["tick"] = "done"
    /\ Evaluation.met # {}
    /\ \E a \in Alerts : /\ alerts[a].is_active
                          /\ alerts[a].item_id \notin DOMAIN ev_updates["tick"]

\* The prices of an update that are neither null nor zero.
ValidPrices(u) == {p \in {u.market_price, u.bazaar_price} : p # NULL /\ p # 0}

Lowest(S) == CHOOSE p \in S : \A q \in S : p <= q

\* The next alert of the loop and the update of its item.
NextAlert == CHOOSE x \in ev_todo["tick"] : \A y \in ev_todo["tick"] : x <= y

\* C20: the alert the loop evaluates triggers exactly when its item's update
\* has a valid price and the lowest of them is strictly below the target of a
\* 'below' alert or strictly above the target of an 'above' alert; without a
\* valid price the alert is passed over, nothing sent and its row unchanged.
C20_TriggerPredicate ==
    [][(ev_pc["tick"] = "loop" /\ ev_todo'["tick"] # ev_todo["tick"]) =>
          LET a == NextAlert
              al == alerts[a]
              valid == ValidPrices(ev_updates["tick"][al.item_id])
              triggers == a \in Evaluation'.met
          IN  IF valid = {}
              THEN /\ ~triggers
                   /\ a \notin Evaluation'.sent
                   /\ Evaluation'.tbl[a] = Evaluation.tbl[a]
              ELSE triggers <=>
                     \/ al.condition = "below" /\ Lowest(valid) < al.target_price
                     \/ al.condition = "above" /\ Lowest(valid) > al.target_price]_vars

\* Every alert of a batch has been evaluated, none triggering: one on a price
\* equal to its target, one on an update without a valid price.
C20_Witness ==
    /\ ev_pc["tick"] = "commit"
    /\ \E a \in Alerts :
          /\ alerts[a].is_active
          /\ alerts[a].item_id \in DOMAIN ev_updates["tick"]
          /\ ValidPrices(ev_updates["tick"][alerts[a].item_id]) = {alerts[a].target_price}
          /\ a \notin Evaluation.met
    /\ \E b \in Alerts :
          /\ alerts[b].is_active
          /\ alerts[b].item_id \in DOMAIN ev_updates["tick"]
          /\ ValidPrices(ev_updates["tick"][alerts[b].item_id]) = {}
          /\ b \notin Evaluation.met

\* ------------------------------------------------------ claims on get_items
InFlightTasks == {k \in Tasks : task_pc[k] = "running"}

\* C21: within one call of get_items, the number of fetches in flight never
\* exceeds the concurrency bound, whatever the order in which tasks complete.
C21_ConcurrencyBound == Cardinality(InFlightTasks) <= CONCURRENCY_LIMIT

\* As many fetches in flight as the bound allows, and a task kept waiting.
C21_Witness ==
    /\ Cardinality(InFlightTasks) = CONCURRENCY_LIMIT
    /\ \E k \in Tasks : task_pc[k] = "waiting"

\* C29: whatever the order of completion, the dict get_items returns holds for
\* each item id the prices, listings and status its own fetch returned.
C29_ResultsByItemId ==
    results # << >> =>
        /\ DOMAIN results = Tasks
        /\ \A i \in Tasks : results[i] = FetchSingleItem(TaskFeed(i))

\* The dict was built after the tasks completed in another order than they
\* were started in gather's argument list.
C29_Witness ==
    /\ results # << >>
    /\ \E m, n \in 1..Len(finished) : m < n /\ finished[m] > finished[n]

\* ------------------------------------------------- GET /prices/{item_id}
\* Time is counted in minutes from 00:00 UTC of 1 January of the rows' year;
\* the year begins at a multiple of every fixed bucket size up to a day, so
\* flooring the minute of the year is flooring the unix timestamp.  The avg
\* columns of a candle are left out.
MaxRows == 2

MinutesPerDay == 1440

DefaultDays == 7

group_concat_max_len == 100000

\* Timestamps of the second week of the year: two in one quarter of an hour,
\* one in the next quarter and one on the next day.
RowTimes == LET t == 7 * MinutesPerDay IN {t, t + 10, t + 20, t + 1500}

\* market_price and bazaar_price of a row: 0 where the source gave no
\* listing, NULL as the columns are nullable.
RowQuotes == {<<0, 150>>, <<100, 0>>, <<200, NULL>>}

PriceLogOut(t, q) == [timestamp |-> t, market_price |-> q[1], bazaar_price |-> q[2]]

\* The tables the item may have: the primary key holds the timestamp.
Tables ==
    {rows \in SUBSET {PriceLogOut(t, q) : t \in RowTimes, q \in RowQuotes} :
        /\ Cardinality(rows) <= MaxRows
        /\ \A r1, r2 \in rows : r1.timestamp = r2.timestamp => r1 = r2}

RequestTimes == LET t == 7 * MinutesPerDay IN {t + 100, t + 2000}

Intervals == {"raw", "15m", "30m", "1h", "4h", "12h", "1d", "1w", "5m"}

\* filters: the rows of the last `days` days up to now.
InRange(rows, t) ==
    {r \in rows : /\ r.timestamp >= t - DefaultDays * MinutesPerDay
                  /\ r.timestamp <= t}

\* The orders in which the engine may hand over the rows of a set.
Orders(rows) ==
    {o \in [1..Cardinality(rows) -> rows] :
        \A m, n \in 1..Cardinality(rows) : o[m] = o[n] => m = n}

AsScanned(rows, descending) == rows

\* ORDER BY timestamp ASC | DESC
OrderByTimestamp(rows, descending) ==
    SortSeq(rows, LAMBDA a, b : IF descending THEN a.timestamp > b.timestamp
                                ELSE a.timestamp < b.timestamp)

PriceOf(r, source) == IF source = "market" THEN r.market_price ELSE r.bazaar_price

KeepValue(v, z) == v

\* NULLIF(v, z)
NullIf(v, z) == IF v = z THEN NULL ELSE v

\* A string is the sequence of its characters' code points; the SQL NULL
\* string and the empty string, both false to Python, are << >>.
Comma == 44

RECURSIVE Chars(_)
Chars(n) == IF n < 10 THEN <<48 + n>> ELSE Append(Chars(n \div 10), 48 + (n % 10))

RECURSIVE ConcatWs(_)
ConcatWs(values) ==
    IF values = << >> THEN << >>
    ELSE IF Len(values) = 1 THEN Chars(values[1])
    ELSE Chars(values[1]) \o <<Comma>> \o ConcatWs(Tail(values))

\* GROUP_CONCAT(NULLIF(price, 0) ORDER BY timestamp ASC|DESC SEPARATOR ','):
\* NULL values are skipped and the result is cut at group_concat_max_len.
GroupConcat(rows, source, descending) ==
    LET ordered == OrderByTimestamp(rows, descending)
        values == [n \in 1..Len(ordered) |-> NullIf(PriceOf(ordered[n], source), 0)]
        joined == ConcatWs(SelectSeq(values, LAMBDA v : v # NULL))
    IN  IF Len(joined) > group_concat_max_len
        THEN SubSeq(joined, 1, group_concat_max_len)
        ELSE joined

\* SUBSTRING_INDEX(s, ',', 1)
SubstringIndex(s) ==
    LET commas == {n \in 1..Len(s) : s[n] = Comma}
    IN  IF commas = {} THEN s
        ELSE SubSeq(s, 1, (CHOOSE n \in commas : \A m \in commas : n <= m) - 1)

IsDigit(s) == s # << >> /\ \A n \in 1..Len(s) : s[n] \in 48..57

RECURSIVE ParseInt(_)
ParseInt(s) ==
    IF s = << >> THEN 0 ELSE 10 * ParseInt(SubSeq(s, 1, Len(s) - 1)) + (s[Len(s)] - 48)

\* int(x) if x and str(x).isdigit() else None
ToPrice(s) == IF s # << >> /\ IsDigit(s) THEN ParseInt(s) ELSE NULL

\* MAX and MIN pass over NULL and are NULL over nothing.
SqlMax(values) ==
    LET S == {values[n] : n \in 1..Len(values)} \ {NULL}
    IN  IF S = {} THEN NULL ELSE CHOOSE v \in S : \A w \in S : w <= v

SqlMin(values) ==
    LET S == {values[n] : n \in 1..Len(values)} \ {NULL}
    IN  IF S = {} THEN NULL ELSE CHOOSE v \in S : \A w \in S : v <= w

\* YEARWEEK(timestamp, 1): the ISO week, Monday first, week 1 the first with
\* four days or more in the year; here for a day from 8 January on.
YearWeek(day, jan1) ==
    LET week1_monday == IF jan1 <= 3 THEN 0 - jan1 ELSE 7 - jan1
    IN  ((day - week1_monday) \div 7) + 1

\* STR_TO_DATE(CONCAT(week, ' Monday'), '%X%V %W'): %X%V number the weeks
\* Sunday first, week 1 beginning on the year's first Sunday; the day is the
\* Monday of that week.
StrToDate(week, jan1) ==
    LET first_sunday == 6 - jan1
    IN  first_sunday + 7 * (week - 1) + 1

Floor(t, size) == (t \div size) * size

time_group(interval, t, jan1) ==
    CASE interval = "1h"  -> (t \div MinutesPerDay) * MinutesPerDay
                                 + ((t % MinutesPerDay) \div 60) * 60
      [] interval = "15m" -> Floor(t, 15)
      [] interval = "30m" -> Floor(t, 30)
      [] interval = "4h"  -> Floor(t, 4 * 60)
      [] interval = "12h" -> Floor(t, 12 * 60)
      [] interval = "1d"  -> (t \div MinutesPerDay) * MinutesPerDay
      [] interval = "1w"  -> StrToDate(YearWeek(t \div MinutesPerDay, jan1), jan1)
                                 * MinutesPerDay

RecognizedIntervals == {"1h", "15m", "30m", "4h", "12h", "1d", "1w"}

RECURSIVE Ascending(_)
Ascending(S) ==
    IF S = {} THEN << >>
    ELSE LET least == CHOOSE v \in S : \A w \in S : v <= w
         IN  <<least>> \o Ascending(S \ {least})

PriceCandle(rows, bucket) ==
    LET prices(source) == [n \in 1..Len(rows) |-> PriceOf(rows[n], source)]
        nonzero(source) == [n \in 1..Len(rows) |-> NullIf(PriceOf(rows[n], source), 0)]
    IN  [timestamp    |-> bucket,
         market_open  |-> ToPrice(SubstringIndex(GroupConcat(rows, "market", FALSE))),
         market_close |-> ToPrice(SubstringIndex(GroupConcat(rows, "market", TRUE))),
         market_high  |-> SqlMax(prices("market")),
         market_low   |-> SqlMin(nonzero("market")),
         bazaar_open  |-> ToPrice(SubstringIndex(GroupConcat(rows, "bazaar", FALSE))),
         bazaar_close |-> ToPrice(SubstringIndex(GroupConcat(rows, "bazaar", TRUE))),
         bazaar_high  |-> SqlMax(prices("bazaar")),
         bazaar_low   |-> SqlMin(nonzero("bazaar"))]

NoRows(rows) == << >>

\* select(PriceLog).where(*filters).order_by(PriceLog.timestamp.asc()), as
\* issued for interval raw
RawRows(rows) == OrderByTimestamp(rows, FALSE)

\* the same statement, as issued for an interval that is not recognized
FallbackRows(rows) == OrderByTimestamp(rows, FALSE)

\* The statement of get_price_history over the rows of the range as the
\* engine reads them.
PriceHistory(rows, interval, jan1) ==
    IF interval = "raw"
    THEN RawRows(rows)
    ELSE IF interval \in RecognizedIntervals
    THEN LET group(t) == time_group(interval, t, jan1)
             buckets == Ascending({group(rows[n].timestamp) : n \in 1..Len(rows)})
         IN  [n \in 1..Len(buckets) |->
                 PriceCandle(SelectSeq(rows, LAMBDA r : group(r.timestamp) = buckets[n]),
                             buckets[n])]
    ELSE FallbackRows(rows)

get_price_history ==
    /\ request.interval = "none"
    /\ \E interval \in Intervals, t \in RequestTimes :
          \E order \in Orders(InRange(raw_rows, t)) :
              /\ request' = [interval |-> interval, now |-> t]
              /\ scan' = order
              /\ response' = PriceHistory(order, interval, year_start)
              /\ UNCHANGED <<raw_rows, year_start>>
              /\ UNCHANGED <<tickVars, rateVars, raceVars, schedVars, fetchVars,
                             batchVars, gatherVars, crawlVars, keyVars,
                             notifyVars, trackVars, wsVars, writeVars>>

CandleNext == get_price_history

CandleSpecInit ==
    /\ Settled /\ api_rate_limit = 1 /\ key_count = 1
    /\ alerts = InitAlerts
    /\ RateInit /\ RaceInit /\ SchedInit /\ FetchInit /\ BatchInit /\ GatherInit /\ NotifyInit /\ TrackInit /\ WsInit /\ WriteInit /\ KeyInit /\ CrawlInit
    /\ raw_rows \in Tables
    /\ year_start \in 0..6
    /\ scan = << >>
    /\ request = [interval |-> "none", now |-> 0]
    /\ response = << >>

SpecCandle == CandleSpecInit /\ [][CandleNext]_vars

\* ------------------------------------------------ the tick and its tables
\* update_all_prices with the price_logs table, beside the requests and jobs
\* that run while it does: DELETE /items/{id} and the daily downsample job.
\* The clock may move on between the two phases.
MaxDownsamples == 1

Inserted(updates, t) == {PriceLogRow(updates[i], t) : i \in DOMAIN updates}

\* The primary key of price_logs is (item_id, timestamp).
DuplicateKey(tbl, rows) ==
    \E r \in rows : \E q \in tbl : q.item_id = r.item_id /\ q.timestamp = r.timestamp

AfterPriorityBackfill(batch) == "phase2"

\* if priority_updates: await self.check_alerts(session, priority_updates);
\* _process_items returns an update for every item of its batch.
AfterPriority(batch) == IF batch = {} THEN "phase2" ELSE "alerts1"

\* _process_items with its insert into price_logs, up to its commit; a
\* duplicate key raises out of the tick before anything is committed.
ProcessAndLog(batch, feed, t, next_pc) ==
    LET data == [i \in batch |-> FetchSingleItem(feed[i])]
        updates == [i \in batch |-> PriceUpdate(i, data[i])]
    IN  IF DuplicateKey(price_logs, Inserted(updates, t))
        THEN /\ pc' = "idle"
             /\ fetched' = data
             /\ UNCHANGED <<items, price_updates, price_logs>>
        ELSE /\ ProcessItems(batch, feed, t)
             /\ price_logs' = price_logs \cup Inserted(updates, t)
             /\ pc' = next_pc

CollectPriority ==
    /\ pc = "idle"
    /\ ticks < MaxTicks
    /\ ticks' = ticks + 1
    /\ now' = now + TickPeriod
    /\ rate_limit' = EffectiveLimit(api_rate_limit, key_count)
    /\ tracked_items' = {i \in Items : items[i].is_tracked}
    /\ untracked_items' = {}
    /\ \E feed \in [tracked_items' -> TickFeeds] :
          ProcessAndLog(tracked_items', feed, now + TickPeriod,
                        AfterPriority(tracked_items'))
    /\ log' = Append(log, RateLimitConfig(ticks + 1, rate_limit'))
    /\ UNCHANGED <<api_rate_limit, key_count, alerts, bazaar_cooldowns, trig_log>>
    /\ UNCHANGED <<batch_pc, chunk, sess_items, sess_logs, batches, raised>>
    /\ UNCHANGED <<rateVars, raceVars, schedVars, fetchVars, gatherVars, histVars, crawlVars, keyVars, notifyVars, trackVars, wsVars, writeVars>>

CollectBackfill ==
    /\ pc = "phase2"
    /\ LET remaining_capacity == RemainingCapacity(rate_limit, Cardinality(tracked_items))
       IN  IF remaining_capacity > 0
           THEN \E S \in SUBSET Items :
                  /\ IsOrderedLimit(S, EligibleItems(items, now), items, remaining_capacity)
                  /\ untracked_items' = S
                  /\ IF S = {}
                     THEN /\ pc' = "idle"
                          /\ UNCHANGED <<items, price_updates, fetched, price_logs>>
                     ELSE \E feed \in [S -> TickFeeds] :
                             ProcessAndLog(S, feed, now, "alerts2")
           ELSE /\ pc' = "idle"
                /\ UNCHANGED <<items, untracked_items, price_updates, fetched, price_logs>>
    /\ UNCHANGED <<now, ticks, api_rate_limit, key_count, alerts, bazaar_cooldowns,
                   rate_limit, tracked_items, trig_log, log>>
    /\ UNCHANGED <<batch_pc, chunk, sess_items, sess_logs, batches, raised>>
    /\ UNCHANGED <<rateVars, raceVars, schedVars, fetchVars, gatherVars, histVars, crawlVars, keyVars, notifyVars, trackVars, wsVars, writeVars>>

\* Time passes while the tick is between its phases.
Elapse ==
    /\ pc = "phase2"
    /\ now < Now0 + ticks * (TickPeriod + 1)
    /\ now' = now + 1
    /\ UNCHANGED <<ticks, api_rate_limit, key_count, items, alerts, bazaar_cooldowns, pc,
                   rate_limit, tracked_items, untracked_items, price_updates, fetched,
                   trig_log, log>>
    /\ UNCHANGED <<rateVars, raceVars, schedVars, fetchVars, batchVars, gatherVars,
                   histVars, crawlVars, keyVars, notifyVars, trackVars, wsVars, writeVars>>

\* DELETE /items/{item_id}
delete_item(i) ==
    /\ items' = [items EXCEPT ![i].is_tracked = FALSE]
    /\ UNCHANGED <<now, ticks, api_rate_limit, key_count, alerts, bazaar_cooldowns, pc,
                   rate_limit, tracked_items, untracked_items, price_updates, fetched,
                   trig_log, log>>
    /\ UNCHANGED <<rateVars, raceVars, schedVars, fetchVars, batchVars, gatherVars,
                   histVars, crawlVars, keyVars, notifyVars, trackVars, wsVars, writeVars>>

\* logger.info("Starting data downsampling...")
Downsampling == [tick |-> 0, kind |-> "downsampling", value |-> 0]

\* The downsample job: its body is a comment.
downsample_data ==
    /\ Cardinality({n \in 1..Len(log) : log[n] = Downsampling}) < MaxDownsamples
    /\ log' = Append(log, Downsampling)
    /\ UNCHANGED <<now, ticks, api_rate_limit, key_count, items, alerts, bazaar_cooldowns,
                   pc, rate_limit, tracked_items, untracked_items, price_updates, fetched,
                   trig_log>>
    /\ UNCHANGED <<rateVars, raceVars, schedVars, fetchVars, batchVars, gatherVars,
                   histVars, crawlVars, keyVars, notifyVars, trackVars, wsVars, writeVars>>

PipelineNext ==
    \/ CollectPriority
    \/ CheckPriorityAlerts
    \/ Elapse
    \/ CollectBackfill
    \/ CheckRoutineAlerts
    \/ \E i \in Items : delete_item(i)
    \/ downsample_data

\* Item 1 tracked; the others untracked, at the high threshold and inside
\* its window, so that the backfill has room for an item untracked meanwhile.
PipelineSpecInit ==
    /\ now = Now0
    /\ ticks = 0
    /\ api_rate_limit = 2
    /\ key_count = 1
    /\ items = [i \in Items |-> IF i = 1 THEN ItemRow(TRUE, 0, Now0 - 1)
                                ELSE ItemRow(FALSE, FAILURE_THRESHOLD_HIGH, Now0 - 1)]
    /\ alerts = InitAlerts
    /\ bazaar_cooldowns = NoCooldowns
    /\ pc = "idle"
    /\ rate_limit = 0
    /\ tracked_items = {}
    /\ untracked_items = {}
    /\ price_updates = << >>
    /\ fetched = << >>
    /\ trig_log = [a \in Alerts |-> <<>>]
    /\ log = << >>
    /\ RateInit /\ RaceInit /\ SchedInit /\ FetchInit /\ BatchInit /\ GatherInit /\ NotifyInit /\ TrackInit /\ WsInit /\ WriteInit /\ KeyInit /\ CrawlInit /\ HistInit

SpecPipeline == PipelineSpecInit /\ [][PipelineNext]_vars

\* ------------------------------------------------- the backfill query alone
\* A tick between its phases: the items other than item 1 are tracked and
\* were collected, both sources failing or answering without a listing; item
\* 1 is untracked, with a failure count and an age about the thresholds and
\* the windows, never checked only if it never failed.  The spare capacity is
\* one.
BackfillRows ==
    LET counts == {0, FAILURE_THRESHOLD_LOW - 1, FAILURE_THRESHOLD_LOW,
                   FAILURE_THRESHOLD_HIGH - 1, FAILURE_THRESHOLD_HIGH,
                   FAILURE_THRESHOLD_HIGH + 1}
        ages == {1, BACKOFF_LOW_MINUTES - 1, BACKOFF_LOW_MINUTES, BACKOFF_LOW_MINUTES + 1,
                 BACKOFF_HIGH_MINUTES - 1, BACKOFF_HIGH_MINUTES, BACKOFF_HIGH_MINUTES + 1}
    IN  {ItemRow(FALSE, fc, Now0 - age) : fc \in counts, age \in ages}
            \cup {ItemRow(FALSE, 0, NULL)}

QuietFeeds ==
    { [market |-> NoAnswer, bazaar |-> NoAnswer],
      [market |-> Answer(<<>>), bazaar |-> Answer(<<>>)] }

EligibleSpecInit ==
    \E feed \in QuietFeeds :
    LET data == [i \in Items \ {1} |-> FetchSingleItem(feed)]
    IN  /\ now = Now0
        /\ ticks = 1
        /\ api_rate_limit = NumItems
        /\ key_count = 1
        /\ \E row \in BackfillRows :
              items = [i \in Items |->
                         IF i = 1 THEN row
                         ELSE ProcessedItem(ItemRow(TRUE, 0, Now0 - TickPeriod), data[i], Now0)]
        /\ alerts = InitAlerts
        /\ bazaar_cooldowns = NoCooldowns
        /\ pc = "phase2"
        /\ rate_limit = NumItems
        /\ tracked_items = Items \ {1}
        /\ untracked_items = {}
        /\ price_updates = [i \in Items \ {1} |-> PriceUpdate(i, data[i])]
        /\ fetched = data
        /\ trig_log = [a \in Alerts |-> <<>>]
        /\ log = <<RateLimitConfig(1, NumItems)>>
        /\ RateInit /\ RaceInit /\ SchedInit /\ FetchInit /\ BatchInit /\ GatherInit /\ NotifyInit /\ TrackInit /\ WsInit /\ WriteInit /\ KeyInit /\ CrawlInit
        /\ HistInit

EligibleNext == Backfill \/ CheckRoutineAlerts

SpecEligible == EligibleSpecInit /\ [][EligibleNext]_vars

\* ------------------------------------------- claims on get_price_history
Served == request.interval # "none"

\* C22: a request served again with the same interval, at whatever time and
\* in whatever order the engine reads the rows, returns the same list as long
\* as the same rows are in the range.
C22_SameRowsSameCandles ==
    Served =>
        \A t \in RequestTimes :
            InRange(raw_rows, t) = InRange(raw_rows, request.now) =>
                \A order \in Orders(InRange(raw_rows, t)) :
                    PriceHistory(order, request.interval, year_start) = response

\* Candles were returned for rows read latest first, two of them with a
\* market price in one bucket, and a request at another time has the same
\* rows in its range.
C22_Witness ==
    /\ Served
    /\ request.interval \in RecognizedIntervals
    /\ Len(response) = 1
    /\ Len(scan) >= 2
    /\ scan[1].timestamp > scan[2].timestamp
    /\ scan[1].market_price > 0 /\ scan[2].market_price > 0
    /\ scan[1].market_price # scan[2].market_price
    /\ \E t \in RequestTimes \ {request.now} :
          InRange(raw_rows, t) = InRange(raw_rows, request.now)

\* The rows of the range in a candle's bucket.
BucketRows(candle) ==
    {r \in InRange(raw_rows, request.now) :
        time_group(request.interval, r.timestamp, year_start) = candle.timestamp}

\* The rows that carry a price of a source: neither NULL nor the 0 that
\* stands in the table for a source without listing.
Priced(rows, source) == {r \in rows : PriceOf(r, source) # NULL /\ PriceOf(r, source) # 0}

Candles == {response[n] : n \in 1..Len(response)}

Ordered(low, mid, high) ==
    (low # NULL /\ mid # NULL /\ high # NULL) => (low <= mid /\ mid <= high)

\* C23: in every candle and for each source, open is the price of the
\* earliest row of the bucket that carries one and close that of the latest,
\* high is the greatest price of the bucket, low the least price that is
\* neither zero nor null, each null when there is none; and whenever they are
\* not null, low <= open <= high and low <= close <= high.
C23_OpenHighLowClose ==
    (Served /\ request.interval \in RecognizedIntervals) =>
        \A c \in Candles :
            LET rows == BucketRows(c)
                Field(source, name) ==
                    IF source = "market"
                    THEN CASE name = "open"  -> c.market_open
                           [] name = "close" -> c.market_close
                           [] name = "high"  -> c.market_high
                           [] name = "low"   -> c.market_low
                    ELSE CASE name = "open"  -> c.bazaar_open
                           [] name = "close" -> c.bazaar_close
                           [] name = "high"  -> c.bazaar_high
                           [] name = "low"   -> c.bazaar_low
            IN  \A source \in {"market", "bazaar"} :
                    LET priced == Priced(rows, source)
                        known == {PriceOf(r, source) : r \in rows} \ {NULL}
                    IN  /\ Field(source, "open") =
                              IF priced = {} THEN NULL
                              ELSE PriceOf(CHOOSE r \in priced :
                                     \A q \in priced : r.timestamp <= q.timestamp, source)
                        /\ Field(source, "close") =
                              IF priced = {} THEN NULL
                              ELSE PriceOf(CHOOSE r \in priced :
                                     \A q \in priced : r.timestamp >= q.timestamp, source)
                        /\ Field(source, "high") =
                              IF known = {} THEN NULL
                              ELSE CHOOSE v \in known : \A w \in known : w <= v
                        /\ Field(source, "low") =
                              IF priced = {} THEN NULL
                              ELSE LET prices == {PriceOf(r, source) : r \in priced}
                                   IN  CHOOSE v \in prices : \A w \in prices : v <= w
                        /\ Ordered(Field(source, "low"), Field(source, "open"),
                                   Field(source, "high"))
                        /\ Ordered(Field(source, "low"), Field(source, "close"),
                                   Field(source, "high"))

\* A candle over two rows: the market price fell from open to close, and
\* the bazaar has a zero and a null, hence a high of zero and no low.
C23_Witness ==
    /\ Served
    /\ request.interval \in RecognizedIntervals
    /\ \E c \in Candles :
          /\ Cardinality(BucketRows(c)) = 2
          /\ c.market_open # NULL /\ c.market_close # NULL
          /\ c.market_open > c.market_close
          /\ c.market_high = c.market_open /\ c.market_low = c.market_close
          /\ c.bazaar_high = 0 /\ c.bazaar_low = NULL /\ c.bazaar_open = NULL

\* The length of an interval's bucket.
BucketMinutes(interval) ==
    CASE interval = "15m" -> 15
      [] interval = "30m" -> 30
      [] interval = "1h"  -> 60
      [] interval = "4h"  -> 4 * 60
      [] interval = "12h" -> 12 * 60
      [] interval = "1d"  -> MinutesPerDay
      [] interval = "1w"  -> 7 * MinutesPerDay

Covers(c, r) ==
    /\ c.timestamp <= r.timestamp
    /\ r.timestamp < c.timestamp + BucketMinutes(request.interval)

\* C24: for a recognized interval the candles are one per bucket that holds
\* a row of the range: every row lies in the bucket of exactly one candle,
\* which begins at or before the row and less than one interval before it, no
\* candle is without a row, and no two candles share a bucket.
C24_OneCandlePerBucket ==
    (Served /\ request.interval \in RecognizedIntervals) =>
        LET rows == InRange(raw_rows, request.now)
        IN  /\ \A r \in rows : Cardinality({c \in Candles : Covers(c, r)}) = 1
            /\ \A c \in Candles : \E r \in rows : Covers(c, r)
            /\ \A m, n \in 1..Len(response) :
                  m < n => response[m].timestamp
                             + BucketMinutes(request.interval) <= response[n].timestamp

\* C24, for the intervals other than the week.
C24_ShorterIntervals == request.interval # "1w" => C24_OneCandlePerBucket

\* Candles for two rows of one day were returned, one candle or two.
C24_Witness ==
    /\ Served
    /\ request.interval \in RecognizedIntervals \ {"1w"}
    /\ Cardinality(InRange(raw_rows, request.now)) = 2
    /\ Len(response) = 2

\* C25: a request whose interval is neither raw nor a recognized one is
\* answered, and with what the same request with interval raw returns: the
\* rows of the range, each once, in ascending order of timestamp.
C25_UnrecognizedIsRaw ==
    (Served /\ request.interval \notin RecognizedIntervals \cup {"raw"}) =>
        /\ \A order \in Orders(InRange(raw_rows, request.now)) :
              response = PriceHistory(order, "raw", year_start)
        /\ {response[n] : n \in 1..Len(response)} = InRange(raw_rows, request.now)
        /\ \A m, n \in 1..Len(response) :
              m < n => response[m].timestamp < response[n].timestamp

\* An unrecognized interval was answered with two rows, which the engine
\* had read latest first.
C25_Witness ==
    /\ Served
    /\ request.interval \notin RecognizedIntervals \cup {"raw"}
    /\ Len(response) = 2
    /\ scan[1].timestamp > scan[2].timestamp

\* ------------------------------------------------ claims on the pipeline
\* The update of item i handed to check_alerts is committed: its row is in
\* price_logs under the time the item's cache carries.
Committed(i, tbl, logs, updates) ==
    PriceLogRow(updates[i], tbl[i].last_updated_at) \in logs

\* C26: check_alerts runs in a tick only on updates whose price_logs row and
\* item update are committed, and the backfill stage is entered only from
\* the alert evaluation of the priority items, or straight from a collection
\* without priority updates, with the rows of the priority items committed.
C26_PipelineOrder ==
    [][/\ (pc \in {"alerts1", "alerts2"} /\ pc' # pc) =>
              \A i \in DOMAIN price_updates :
                  Committed(i, items, price_logs, price_updates)
       /\ (pc # "phase2" /\ pc' = "phase2") =>
              /\ \A i \in tracked_items' :
                    \E r \in price_logs' : r.item_id = i /\ r.timestamp = now'
              /\ pc = "alerts1" \/ (pc = "idle" /\ tracked_items' = {})]_vars

\* A tick has evaluated the alerts of its priority items and, having
\* collected its backfill, is about to evaluate those of the backfill.
C26_Witness ==
    /\ pc = "alerts2"
    /\ tracked_items # {}
    /\ untracked_items # {}
    /\ \A i \in DOMAIN price_updates : Committed(i, items, price_logs, price_updates)

Created == price_logs' \ price_logs

\* C27: no step removes or changes a row of price_logs, and a tick creates
\* at most one row per item: one per item in a stage, and none in the
\* backfill for an item collected as a priority item of the same tick.
C27_AppendOnlyOncePerTick ==
    [][/\ price_logs \subseteq price_logs'
       /\ \A r, q \in Created : r.item_id = q.item_id => r = q
       /\ pc = "phase2" => \A r \in Created : r.item_id \notin tracked_items]_vars

\* C27, the rows that exist: no step removes or changes one.
C27_RowsKept == [][price_logs \subseteq price_logs']_vars

\* ------------------------------------------- claims on the backfill query
\* C28: the backfill query, with room for it, takes an untracked item whose
\* failure count is under the low threshold whatever its last check, takes
\* one from the low threshold up to the high one exactly when its last check
\* lies the low window or more back, and never takes an item it would leave
\* out with the same last check and a lower failure count.
C28_TwoTierEligibility ==
    [][(pc = "phase2" /\ pc' # pc) =>
          LET it == items[1]
              taken == 1 \in untracked_items'
          IN  /\ it.failure_count < FAILURE_THRESHOLD_LOW => taken
              /\ (/\ it.failure_count >= FAILURE_THRESHOLD_LOW
                  /\ it.failure_count < FAILURE_THRESHOLD_HIGH) =>
                     (taken <=> now - it.last_updated_at >= BACKOFF_LOW_MINUTES)
              /\ taken => \A fc \in 0..it.failure_count :
                              Eligible([it EXCEPT !.failure_count = fc], now)]_vars

\* The backfill took an item of the low window, whose failure count its
\* failed collection has raised past the low threshold.
C28_Witness ==
    /\ pc = "alerts2"
    /\ untracked_items = {1}
    /\ items[1].last_updated_at = now
    /\ items[1].failure_count = FAILURE_THRESHOLD_LOW + 1

\* -------------------------------------- claims on the recurring alert
\* C30: when the loop evaluates a recurring alert whose condition is met, the
\* notification is sent exactly when has_changed or is_expired holds; if
\* neither holds the alert's last triggered price, id and time stay as they
\* were, and if one holds they become the best price, the best listing id and
\* the time of the evaluation.
C30_RecurringNotifiesWhenDue ==
    [][(ev_pc["tick"] = "loop" /\ ev_todo'["tick"] # ev_todo["tick"]) =>
          LET a == NextAlert
              al == Evaluation.tbl[a]
              u == ev_updates["tick"][al.item_id]
              best == BestPrice(OrZero(u.market_price), OrZero(u.bazaar_price))
              due == HasChanged(al, best, u.best_listing_id) \/ IsExpired(al, now)
              after == Evaluation'.tbl[a]
          IN  (al.is_persistent /\ a \in Evaluation'.met) =>
                 /\ a \in Evaluation'.sent <=> due
                 /\ ~due => /\ after.last_triggered_price = al.last_triggered_price
                            /\ after.last_triggered_id = al.last_triggered_id
                            /\ after.last_triggered_at = al.last_triggered_at
                 /\ due => /\ after.last_triggered_price = best
                           /\ after.last_triggered_id = u.best_listing_id
                           /\ after.last_triggered_at = now]_vars

\* --------------------------------------------------------------------------
\* One push message evaluated against recurring alerts that carry the marks
\* of an earlier trigger.
\* --------------------------------------------------------------------------

\* What a recurring alert row can carry in last_triggered_price, _id and _at:
\* nothing, or the price, the listing id (absent when the trigger had none)
\* and the time of a trigger inside, at the edge of and beyond the throttle
\* window.
TriggeredMarks ==
    {[last_triggered_price |-> NULL, last_triggered_id |-> NULL, last_triggered_at |-> NULL]}
    \cup [ last_triggered_price : PushPrices,
           last_triggered_id : {NULL, 5},
           last_triggered_at : {Now0 - 1, Now0 - THROTTLE_MINUTES,
                                Now0 - THROTTLE_MINUTES - 1} ]

Marked(al, m) ==
    [al EXCEPT !.last_triggered_price = m.last_triggered_price,
               !.last_triggered_id = m.last_triggered_id,
               !.last_triggered_at = m.last_triggered_at]

DedupSpecInit ==
    /\ Settled
    /\ \E m \in TriggeredMarks :
          alerts = [a \in Alerts |-> IF RaceAlerts[a].is_persistent
                                     THEN Marked(RaceAlerts[a], m) ELSE RaceAlerts[a]]
    /\ RateInit /\ RaceInit /\ SchedInit /\ FetchInit /\ BatchInit /\ GatherInit /\ NotifyInit /\ TrackInit /\ WsInit /\ WriteInit /\ KeyInit /\ CrawlInit /\ HistInit

DedupNext ==
    \/ HandleMessage
    \/ SelectActiveAlerts("push")
    \/ EvaluateAlert("push")
    \/ CommitAlerts("push")

SpecDedup == DedupSpecInit /\ [][DedupNext]_vars

\* The alert the push feed's evaluation takes next.
NextPushAlert == CHOOSE x \in ev_todo["push"] : \A y \in ev_todo["push"] : x <= y

\* The evaluation of the push feed meets the condition of a recurring alert
\* with an update without listing id, at the alert's last triggered price and
\* inside the throttle window.
SamePriceInsideWindow(al, u) ==
    LET best == BestPrice(OrZero(u.market_price), OrZero(u.bazaar_price))
    IN  /\ al.is_persistent
        /\ best > 0 /\ ConditionMet(al, best)
        /\ u.best_listing_id = NULL
        /\ al.last_triggered_price = best
        /\ ~IsExpired(al, now)

\* The pass of the loop over alert a neither calls the notifier nor touches
\* the alert.
SuppressedIn(a, before, after) ==
    /\ ~after.raised
    /\ after.sent = before.sent
    /\ after.triggered = before.triggered
    /\ after.tbl[a] = before.tbl[a]

C31_PriceOnlyDedupWithoutId ==
    [][(ev_pc["push"] = "loop" /\ ev_todo'["push"] # ev_todo["push"]) =>
          LET a == NextPushAlert
              al == ev_acc["push"].tbl[a]
          IN  (SamePriceInsideWindow(al, ev_updates["push"][al.item_id])
               /\ al.last_triggered_id = NULL) =>
                 SuppressedIn(a, ev_acc["push"], ev_acc'["push"])]_vars

\* --------------------------------------------------------------------------
\* The catalog crawler: stage 3 of scheduled_price_check of app/main.py, with
\* no tracked item (requests_made = 0 when the stage begins).
\* --------------------------------------------------------------------------
MaxCycles == 2

REQUESTS_PER_KEY == 100

CRAWLER_REQUESTS_PER_KEY == 50

MinutesPerCycle == 1

\* What the two sources answer the crawler for one item.
CrawlFeeds ==
    [ market : {NoAnswer, Answer(<<>>), Answer(<<Listing(100, 11)>>)},
      bazaar : {NoAnswer, Answer(<<>>), Answer(<<Listing(300, 7), Listing(200, 8)>>)} ]

\* A Python value that is None or a list of listings.
None == [is_none |-> TRUE, listings |-> <<>>]

Listings(ls) == [is_none |-> FALSE, listings |-> ls]

\* fetch_item_market_data: the listings of the answer; [] when there is no
\* key or the request raises.
fetch_item_market_data(source) ==
    IF source.ok THEN Listings(source.listings) ELSE Listings(<<>>)

\* fetch_bazaar_data: the MarketResponse of the answer; None when the request
\* raises.
fetch_bazaar_data(source) ==
    IF source.ok THEN Listings(source.listings) ELSE None

RECURSIVE SumPrices(_)
SumPrices(ls) == IF ls = <<>> THEN 0 ELSE Head(ls).price + SumPrices(Tail(ls))

\* calculate_stats: the lowest price and the average of the three lowest, the
\* average kept as the fraction <<sum, count>>; None, None for no listing
\* (the absent average is << >>).
calculate_stats(listings) ==
    IF listings = <<>> THEN [min |-> NULL, avg |-> <<>>]
    ELSE LET sorted_listings == SortByPrice(listings)
             top3 == SubSeq(sorted_listings, 1, Min2(3, Len(sorted_listings)))
         IN  [min |-> sorted_listings[1].price, avg |-> <<SumPrices(top3), Len(top3)>>]

Ceil(a, b) == (a + b - 1) \div b

\* items_to_scan for total_keys active keys and total rows of all_items.
ItemsToScan(total_keys, total, target_minutes) ==
    LET remaining_requests == total_keys * REQUESTS_PER_KEY
        crawler_max_capacity == total_keys * CRAWLER_REQUESTS_PER_KEY
        available_slots == Min2(remaining_requests, crawler_max_capacity)
    IN  IF remaining_requests > 0 /\ total > 0 /\ available_slots > 0
        THEN Min2(available_slots, Ceil(total, target_minutes))
        ELSE 0

\* order_by(last_checked.asc().nullsfirst()).limit(n): every order the
\* engine can return, rows of equal last_checked in any order.
CrawlerQuery(tbl, n) ==
    LET k == Min2(n, NumItems)
    IN  { s \in [1..k -> Items] :
            /\ \A i, j \in 1..k : i < j => /\ s[i] # s[j]
                                           /\ tbl[s[i]].last_checked <= tbl[s[j]].last_checked
            /\ \A i \in 1..k, x \in Items :
                  (\A j \in 1..k : s[j] # x) => tbl[s[i]].last_checked <= tbl[x].last_checked }

\* The interval job starts an execution; without an active key it returns at
\* once, otherwise it reads the crawler's items.
StartCrawl ==
    /\ crawl_pc = "idle"
    /\ crawl_cycles < MaxCycles
    /\ crawl_cycles' = crawl_cycles + 1
    /\ crawl_time' = crawl_time + MinutesPerCycle
    /\ db_session' = [items |-> all_items, logs |-> legacy_logs]
    /\ IF key_count = 0
       THEN UNCHANGED <<crawl_pc, crawler_items>>
       ELSE /\ crawler_items' \in
                  CrawlerQuery(all_items, ItemsToScan(key_count, NumItems, scan_minutes))
            /\ crawl_pc' = "scan"
    /\ UNCHANGED <<all_items, legacy_logs, scan_minutes, fetch_result>>
    /\ UNCHANGED <<tickVars, rateVars, raceVars, schedVars, fetchVars, batchVars,
                   gatherVars, histVars, keyVars, notifyVars, trackVars, wsVars, writeVars>>

\* The body of 'for item_def in crawler_items' for the item the sources
\* answer with feed, on the session's rows.
CrawlOne(sess, i, feed, t) ==
    LET market_listings == fetch_item_market_data(feed.market)
        bazaar_data == fetch_bazaar_data(feed.bazaar)
        b == calculate_stats(bazaar_data.listings)
        m == calculate_stats(market_listings.listings)
        prices == {p \in {b.min, m.min} : p # NULL}
        new_log == [item_id |-> i, timestamp |-> t,
                    bazaar_min |-> b.min, bazaar_avg |-> b.avg,
                    market_min |-> m.min, market_avg |-> m.avg]
    IN  IF market_listings.is_none \/ bazaar_data.is_none THEN sess
        ELSE [ items |-> [sess.items EXCEPT
                            ![i].last_checked = t,
                            ![i].last_price = IF prices # {} THEN Lowest(prices) ELSE @],
               logs |-> IF prices # {} THEN sess.logs \cup {new_log} ELSE sess.logs ]

CrawlItem ==
    /\ crawl_pc = "scan"
    /\ crawler_items # << >>
    /\ \E feed \in CrawlFeeds :
          /\ db_session' = CrawlOne(db_session, Head(crawler_items), feed, crawl_time)
          /\ fetch_result' = [item |-> Head(crawler_items),
                              market_ok |-> feed.market.ok,
                              bazaar_ok |-> feed.bazaar.ok]
    /\ crawler_items' = Tail(crawler_items)
    /\ UNCHANGED <<all_items, legacy_logs, scan_minutes, crawl_pc, crawl_time, crawl_cycles>>
    /\ UNCHANGED <<tickVars, rateVars, raceVars, schedVars, fetchVars, batchVars,
                   gatherVars, histVars, keyVars, notifyVars, trackVars, wsVars, writeVars>>

\* db.commit() after the loop, and the end of the execution.
CommitCrawl ==
    /\ crawl_pc = "scan"
    /\ crawler_items = << >>
    /\ all_items' = db_session.items
    /\ legacy_logs' = db_session.logs
    /\ crawl_pc' = "idle"
    /\ UNCHANGED <<scan_minutes, crawl_time, crawl_cycles, crawler_items, db_session,
                   fetch_result>>
    /\ UNCHANGED <<tickVars, rateVars, raceVars, schedVars, fetchVars, batchVars,
                   gatherVars, histVars, keyVars, notifyVars, trackVars, wsVars, writeVars>>

CrawlNext == StartCrawl \/ CrawlItem \/ CommitCrawl

\* The catalog never crawled, the scan target at one minute for the whole
\* catalog or at the default of a day.
CrawlSpecInit ==
    /\ Settled /\ api_rate_limit = 1 /\ alerts = InitAlerts
    /\ RateInit /\ RaceInit /\ SchedInit /\ FetchInit /\ BatchInit /\ GatherInit /\ NotifyInit /\ TrackInit /\ WsInit /\ WriteInit /\ KeyInit /\ HistInit
    /\ all_items = [i \in Items |-> [last_checked |-> NULL, last_price |-> NULL]]
    /\ legacy_logs = {}
    /\ scan_minutes \in {1, 24 * 60}
    /\ crawl_pc = "idle"
    /\ crawl_time = Now0
    /\ crawl_cycles = 0
    /\ crawler_items = << >>
    /\ db_session = [items |-> all_items, logs |-> legacy_logs]
    /\ fetch_result = NoFetch

SpecCrawl == CrawlSpecInit /\ [][CrawlNext]_vars

\* C32: a crawled item for which the market fetch or the bazaar fetch failed
\* is skipped: the step adds no price_logs row and leaves the item's
\* last_checked as it was.
C32_FailedFetchSkipsItem ==
    [][(crawl_pc = "scan" /\ crawler_items' # crawler_items) =>
          LET i == Head(crawler_items)
          IN  (~fetch_result'.market_ok \/ ~fetch_result'.bazaar_ok) =>
                 /\ db_session'.logs = db_session.logs
                 /\ db_session'.items[i].last_checked = db_session.items[i].last_checked]_vars

\* The same for the bazaar fetch alone.
C32_FailedBazaarSkipsItem ==
    [][(crawl_pc = "scan" /\ crawler_items' # crawler_items) =>
          (~fetch_result'.bazaar_ok => db_session' = db_session)]_vars

\* --------------------------------------------------------------------------
\* The tick repeated without end.  Time is kept relative to the running tick:
\* when the job fires the rows age by one period instead of the clock moving
\* on, ages beyond the longest backoff window are not told apart, nor are
\* failure counts beyond the high threshold (the code compares them with the
\* two thresholds only), and the logs are not kept.
\* --------------------------------------------------------------------------
Max2(a, b) == IF a > b THEN a ELSE b

Aged(row) ==
    [row EXCEPT !.last_updated_at =
                   IF @ = NULL THEN NULL
                   ELSE Max2(@ - TickPeriod, Now0 - BACKOFF_HIGH_MINUTES),
                !.failure_count = Min2(@, FAILURE_THRESHOLD_HIGH)]

\* What the sources answer a priority item (a listing under the target of its
\* alert, or no listing) and a backfill item (both failing, or no listing).
PriorityFeeds ==
    { [market |-> Answer(<<Listing(100, 11)>>), bazaar |-> NoAnswer],
      [market |-> Answer(<<>>), bazaar |-> Answer(<<>>)] }

BackfillFeeds ==
    { [market |-> NoAnswer, bazaar |-> NoAnswer],
      [market |-> Answer(<<>>), bazaar |-> Answer(<<>>)] }

\* The collection of a batch on the rows tbl.
Collected(tbl, batch, feed, t) ==
    [i \in Items |-> IF i \in batch
                     THEN ProcessedItem(tbl[i], FetchSingleItem(feed[i]), t)
                     ELSE tbl[i]]

\* The job fires: configuration, the tracked items, phase 1 up to its commit.
LiveStartTick ==
    /\ pc = "idle"
    /\ rate_limit' = EffectiveLimit(api_rate_limit, key_count)
    /\ tracked_items' = {i \in Items : items[i].is_tracked}
    /\ untracked_items' = {}
    /\ \E feed \in [tracked_items' -> PriorityFeeds] :
          /\ items' = Collected([i \in Items |-> Aged(items[i])], tracked_items', feed, now)
          /\ fetched' = [i \in tracked_items' |-> FetchSingleItem(feed[i])]
          /\ price_updates' = [i \in tracked_items' |-> PriceUpdate(i, fetched'[i])]
    /\ pc' = IF tracked_items' = {} THEN "phase2" ELSE "alerts1"
    /\ UNCHANGED <<now, ticks, api_rate_limit, key_count, alerts, bazaar_cooldowns,
                   trig_log, log>>
    /\ UNCHANGED <<rateVars, raceVars, schedVars, fetchVars, batchVars, gatherVars,
                   histVars, crawlVars, keyVars, notifyVars, trackVars, wsVars, writeVars>>

\* await self.check_alerts(session, updates): an exception ends the tick.
LiveCheckAlerts(at, next_pc) ==
    /\ pc = at
    /\ LET res == CheckAlerts(alerts, bazaar_cooldowns, price_updates, now, Delivering)
       IN  /\ alerts' = res.alerts
           /\ bazaar_cooldowns' = res.cd
           /\ pc' = IF res.raised THEN "idle" ELSE next_pc
    /\ UNCHANGED <<now, ticks, api_rate_limit, key_count, items, rate_limit,
                   tracked_items, untracked_items, price_updates, fetched, trig_log, log>>
    /\ UNCHANGED <<rateVars, raceVars, schedVars, fetchVars, batchVars, gatherVars,
                   histVars, crawlVars, keyVars, notifyVars, trackVars, wsVars, writeVars>>

\* Phase 2: the spare capacity, the backfill query, its batch up to the commit.
LiveBackfill ==
    /\ pc = "phase2"
    /\ LET remaining_capacity == RemainingCapacity(rate_limit, Cardinality(tracked_items))
       IN  IF remaining_capacity > 0
           THEN \E S \in SUBSET Items :
                  /\ IsOrderedLimit(S, EligibleItems(items, now), items, remaining_capacity)
                  /\ untracked_items' = S
                  /\ IF S = {}
                     THEN /\ pc' = "idle"
                          /\ UNCHANGED <<items, price_updates, fetched>>
                     ELSE /\ pc' = "alerts2"
                          /\ \E feed \in [S -> BackfillFeeds] :
                                /\ items' = Collected(items, S, feed, now)
                                /\ fetched' = [i \in S |-> FetchSingleItem(feed[i])]
                                /\ price_updates' = [i \in S |-> PriceUpdate(i, fetched'[i])]
           ELSE /\ pc' = "idle"
                /\ UNCHANGED <<items, untracked_items, price_updates, fetched>>
    /\ UNCHANGED <<now, ticks, api_rate_limit, key_count, alerts, bazaar_cooldowns,
                   rate_limit, tracked_items, trig_log, log>>
    /\ UNCHANGED <<rateVars, raceVars, schedVars, fetchVars, batchVars, gatherVars,
                   histVars, crawlVars, keyVars, notifyVars, trackVars, wsVars, writeVars>>

LiveNext ==
    \/ LiveStartTick
    \/ LiveCheckAlerts("alerts1", "phase2")
    \/ LiveBackfill
    \/ LiveCheckAlerts("alerts2", "idle")

\* Item 1 is the priority item, the others are not; the limit leaves one
\* request to the backfill on every tick.
LiveSpecInit ==
    /\ now = Now0
    /\ ticks = 0
    /\ api_rate_limit = 2
    /\ key_count = 1
    /\ items = [i \in Items |-> ItemRow(i = 1, 0, IF i = 1 THEN Now0 - 1 ELSE NULL)]
    /\ alerts = InitAlerts
    /\ bazaar_cooldowns = NoCooldowns
    /\ pc = "idle"
    /\ rate_limit = 0
    /\ tracked_items = {}
    /\ untracked_items = {}
    /\ price_updates = << >>
    /\ fetched = << >>
    /\ trig_log = [a \in Alerts |-> <<>>]
    /\ log = << >>
    /\ RateInit /\ RaceInit /\ SchedInit /\ FetchInit /\ BatchInit /\ GatherInit /\ NotifyInit /\ TrackInit /\ WsInit /\ WriteInit /\ KeyInit /\ CrawlInit /\ HistInit

\* The scheduler fires the job every minute and every await of a tick returns.
SpecLive == LiveSpecInit /\ [][LiveNext]_vars /\ WF_vars(LiveNext)

\* The backfill of the running tick has selected item i.
SelectedForBackfill(i) == pc = "alerts2" /\ i \in untracked_items

\* C33: with a remaining budget of one request on every tick, every
\* non-priority item is selected for collection again and again.
C33_EventuallySelectedAgain ==
    \A i \in Items \ {1} : []<>SelectedForBackfill(i)

\* The backfill does not wait for ever in backoff: whenever phase 2 is entered
\* again and again, every non-priority item is selected again and again.
C33_SelectedWheneverPhase2Runs ==
    \A i \in Items \ {1} : []<>(pc = "phase2") => []<>SelectedForBackfill(i)

\* --------------------------------------------------------------------------
\* check_rate_limit with a caller that stops between incr and expire: the
\* await of expire raises (the connection to Redis is lost), the task is
\* cancelled, or the process ends.  The caller's next call starts afresh.
\* --------------------------------------------------------------------------
Stop(c) ==
    /\ req_pc[c] = "expire"
    /\ req_pc' = [req_pc EXCEPT ![c] = "idle"]
    /\ UNCHANGED <<redis_count, redis_ttl, redis_window, req_limit, req_current,
                   req_window, requests, permitted>>
    /\ UNCHANGED <<tickVars, raceVars, schedVars, fetchVars, batchVars, gatherVars,
                   histVars, crawlVars, keyVars, notifyVars, trackVars, wsVars, writeVars>>

ExpiryNext ==
    \/ RateNext
    \/ \E c \in Callers : Stop(c)

SpecExpiry == RateSpecInit /\ [][ExpiryNext]_vars

\* The key of the rate counter never exists without an expiry, not even
\* between the incr and the expire of the caller that created it.
C34_CounterCarriesExpiry == redis_count > 0 => redis_ttl

\* C34: the rate counter always resets: whenever its key exists it carries an
\* expiry, or the caller whose increment created it is about to set one, so
\* that the key is dropped and requests are permitted again, however the
\* calls interleave and also when a caller stops between its increment and
\* its expire.
C34_CounterAlwaysResets ==
    (redis_count > 0 /\ ~redis_ttl) =>
        \E c \in Callers : /\ req_pc[c] = "expire"
                           /\ req_current[c] = 1
                           /\ req_window[c] = redis_window

\* --------------------------------------------------------------------------
\* _request_v2 from the rate check to the choice of the credential.
\* --------------------------------------------------------------------------

\* The answer of check_rate_limit; a refused call returns None.
CheckRateLimit(c) ==
    /\ req_pc[c] = "decide"
    /\ IF Allowed(req_current[c], req_limit[c])
       THEN /\ permitted' = [permitted EXCEPT ![req_window[c]] = @ + 1]
            /\ req_pc' = [req_pc EXCEPT ![c] = "key"]
       ELSE /\ req_pc' = [req_pc EXCEPT ![c] = "idle"]
            /\ UNCHANGED permitted
    /\ UNCHANGED <<redis_count, redis_ttl, redis_window, req_limit, req_current,
                   req_window, requests>>
    /\ UNCHANGED <<tickVars, raceVars, schedVars, fetchVars, batchVars, gatherVars,
                   histVars, crawlVars, keyVars, notifyVars, trackVars, wsVars, writeVars>>

\* _get_api_key with `keys` active keys: position in keys_list of the key
\* returned for the value incr has answered (the only key without incr).
SelectedKey(index, keys) == IF keys = 1 THEN 0 ELSE index % keys

\* current_key = await self._get_api_key(), and the request sent with it.
\* Without an active key the key of the settings is used.
GetApiKey(c) ==
    /\ req_pc[c] = "key"
    /\ rotation_index' = IF key_count >= 2 THEN rotation_index + 1 ELSE rotation_index
    /\ key_uses' = IF key_count = 0 THEN key_uses
                   ELSE [key_uses EXCEPT
                           ![req_window[c]][SelectedKey(rotation_index', key_count)] = @ + 1]
    /\ req_pc' = [req_pc EXCEPT ![c] = "idle"]
    /\ UNCHANGED <<redis_count, redis_ttl, redis_window, req_limit, req_current,
                   req_window, requests, permitted>>
    /\ UNCHANGED <<tickVars, raceVars, schedVars, fetchVars, batchVars, gatherVars,
                   histVars, crawlVars, notifyVars, trackVars, wsVars, writeVars>>

RotateNext ==
    \/ \E c \in Callers : RequestV2(c)
    \/ \E c \in Callers : Incr(c)
    \/ \E c \in Callers : Expire(c)
    \/ \E c \in Callers : CheckRateLimit(c)
    \/ \E c \in Callers : GetApiKey(c)
    \/ KeyExpires

SpecRotate == RateSpecInit /\ [][RotateNext]_vars

\* C35: with two or more active credentials, the requests permitted in one
\* rate window never use one credential more than api_rate_limit times,
\* however the request tasks interleave.
C35_PerCredentialLimit ==
    key_count >= 2 =>
        \A w \in 0..MaxWindows, k \in 0..(key_count - 1) : key_uses[w][k] <= api_rate_limit

\* The requests permitted in one window while no request of another window is
\* between its rate check and its credential share the credentials evenly:
\* the uses of two credentials differ by one at most.
C35_EvenWithinWindow ==
    (key_count >= 2 /\ redis_window = 0) =>
        \A j, k \in 0..(key_count - 1) : key_uses[0][j] - key_uses[0][k] <= 1

\* --------------------------------------------------------------------------
\* The notifier on its own: send_discord_alert called with any seller, item
\* and webhook configuration, the calls any time apart.
\* --------------------------------------------------------------------------
MaxCalls == 2

\* Minutes between one call and the next.
CallGaps == {0, 1, COOLDOWN_MINUTES - 1, COOLDOWN_MINUTES}

Call ==
    /\ ticks < MaxCalls
    /\ ticks' = ticks + 1
    /\ \E gap \in CallGaps, seller \in Sellers \cup {NULL}, i \in Items, env \in NotifierEnvs :
          LET out == SendDiscordAlert(bazaar_cooldowns, seller, i, now + gap, env)
          IN  /\ now' = now + gap
              /\ bazaar_cooldowns' = out.cd
              /\ call_outcome' =
                    [ seller |-> seller, item_id |-> i, delivered |-> out.delivered,
                      since |-> IF seller = NULL \/ last_delivered[<<seller, i>>] = NULL
                                THEN NULL
                                ELSE now + gap - last_delivered[<<seller, i>>] ]
              /\ last_delivered' = IF out.delivered /\ seller # NULL
                                   THEN [last_delivered EXCEPT ![<<seller, i>>] = now + gap]
                                   ELSE last_delivered
    /\ UNCHANGED <<api_rate_limit, key_count, items, alerts, pc, rate_limit, tracked_items,
                   untracked_items, price_updates, fetched, trig_log, log>>
    /\ UNCHANGED <<rateVars, raceVars, schedVars, fetchVars, batchVars, gatherVars,
                   histVars, crawlVars, keyVars, trackVars, wsVars, writeVars>>

NotifyNext == Call

NotifySpecInit ==
    /\ Settled /\ api_rate_limit = 1 /\ key_count = 1 /\ alerts = InitAlerts
    /\ RateInit /\ RaceInit /\ SchedInit /\ FetchInit /\ BatchInit /\ GatherInit /\ CrawlInit /\ KeyInit /\ HistInit /\ TrackInit /\ WsInit /\ WriteInit
    /\ last_delivered = [k \in Sellers \X Items |-> NULL]
    /\ call_outcome = NoCall

SpecNotify == NotifySpecInit /\ [][NotifyNext]_vars

ChunkCommitted == batch_pc = "commit" /\ batch_pc' = "idle" /\ raised' = NotRaised

\* C37: when both sources fail for an item in a tick, the commit of the tick
\* leaves the item's cached last market price and last bazaar price as they
\* were; only failure_count and the time of the last check change.
C37_FailureKeepsCachedPrices ==
    [][ChunkCommitted =>
         \A i \in chunk :
            BothFailed(fetched[i]) =>
               /\ items'[i].last_market_price = items[i].last_market_price
               /\ items'[i].last_bazaar_price = items[i].last_bazaar_price]_vars

\* What the code does instead: the cache of an item neither source answered
\* for holds the price 0 for both sources, whatever it held before, and the
\* failure count is one more and the row is stamped with the time of the chunk.
C37_FailureZeroesCachedPrices ==
    [][ChunkCommitted =>
         \A i \in chunk :
            BothFailed(fetched[i]) =>
               /\ items'[i].last_market_price = 0
               /\ items'[i].last_bazaar_price = 0
               /\ items'[i].failure_count = items[i].failure_count + 1
               /\ items'[i].last_updated_at = now
               /\ items'[i].is_tracked = items[i].is_tracked]_vars

\* An item whose cache held a price of a source, after a chunk in which
\* neither source answered.
C37_Witness ==
    /\ batch_pc = "idle" /\ raised = NotRaised /\ batches = MaxBatches
    /\ \E i \in chunk :
          /\ BothFailed(fetched[i])
          /\ items[i].last_market_price = 0
          /\ items[i].failure_count = 1
          /\ \E l \in price_logs : l.item_id = i /\ l.market_price > 0

\* --------------------------------------------------------------------------
\* The tracking flag under the HTTP handlers and the catalog sync.
\* --------------------------------------------------------------------------
MaxOps == 3

\* The other variables of the module, which the handlers leave alone.
TrackFrame ==
    UNCHANGED <<tickVars, rateVars, raceVars, schedVars, fetchVars, batchVars, gatherVars,
                histVars, crawlVars, keyVars, notifyVars, wsVars, writeVars>>

Called(name, i) ==
    /\ track_ops < MaxOps
    /\ track_ops' = track_ops + 1
    /\ last_op' = [op |-> name, item_id |-> i, was_tracked |-> catalog[i].is_tracked]

\* An active alert row of the item.
HasActiveAlert(table, i) == \E a \in table : a.item_id = i /\ a.is_active

\* POST /alerts: 404 when the item is not there; else the item is tracked and
\* an active alert is added, in one commit.
create_alert(i) ==
    /\ Called("create_alert", i)
    /\ IF ~catalog[i].exists
       THEN UNCHANGED <<catalog, price_alerts>>
       ELSE /\ catalog' = [catalog EXCEPT ![i].is_tracked = TRUE]
            /\ price_alerts' = price_alerts \cup
                 {[id |-> Cardinality(price_alerts) + 1, item_id |-> i, is_active |-> TRUE]}
    /\ TrackFrame

\* DELETE /items/{item_id}: the item stays in the catalog, untracked.
DeleteItem(i) ==
    /\ Called("delete_item", i)
    /\ IF ~catalog[i].exists
       THEN UNCHANGED catalog
       ELSE catalog' = [catalog EXCEPT ![i].is_tracked = FALSE]
    /\ UNCHANGED price_alerts
    /\ TrackFrame

\* The bodies PUT /items/{item_id} accepts, as model_dump(exclude_unset=True)
\* gives them: name is required, is_tracked is there when the client sent it
\* (sent), with the value is_tracked.
ItemUpdates == [name : {0, 1}, sent : BOOLEAN, is_tracked : BOOLEAN]

\* for key, value in item_in.model_dump(exclude_unset=True).items(): setattr
update_item(i, item_in) ==
    /\ Called("update_item", i)
    /\ IF ~catalog[i].exists
       THEN UNCHANGED catalog
       ELSE catalog' = [catalog EXCEPT
                          ![i].name = item_in.name,
                          ![i].is_tracked = IF item_in.sent THEN item_in.is_tracked ELSE @]
    /\ UNCHANGED price_alerts
    /\ TrackFrame

\* An upsert whose update clause also takes is_tracked from the inserted row.
UpsertedWithTracked(row, name) == [exists |-> TRUE, is_tracked |-> FALSE, name |-> name]

\* INSERT ... is_tracked=False ON DUPLICATE KEY UPDATE name, description, type:
\* the row of an item of the answer after the sync.
Upserted(row, name) ==
    IF row.exists THEN [row EXCEPT !.name = name]
    ELSE [exists |-> TRUE, is_tracked |-> FALSE, name |-> name]

\* sync_item_catalog(): nothing when the items list is empty, else one upsert
\* per item of the list and a commit.
sync_item_catalog(items_data) ==
    /\ Called("sync_item_catalog", 1)
    /\ catalog' = [i \in Items |-> IF i \in DOMAIN items_data
                                   THEN Upserted(catalog[i], items_data[i])
                                   ELSE catalog[i]]
    /\ UNCHANGED price_alerts
    /\ TrackFrame

\* The answers of get_torn_items_list: names for any set of items, none on failure.
ItemsData == UNION {[S -> {0, 1}] : S \in SUBSET Items}

TrackNext ==
    \/ \E i \in Items : create_alert(i)
    \/ \E i \in Items : DeleteItem(i)
    \/ \E i \in Items, item_in \in ItemUpdates : update_item(i, item_in)
    \/ \E items_data \in ItemsData : sync_item_catalog(items_data)

TrackSpecInit ==
    /\ Settled /\ api_rate_limit = 1 /\ key_count = 1 /\ alerts = InitAlerts
    /\ RateInit /\ RaceInit /\ SchedInit /\ FetchInit /\ BatchInit /\ GatherInit /\ NotifyInit /\ TrackInit /\ WsInit /\ WriteInit /\ KeyInit /\ CrawlInit /\ HistInit

SpecTrack == TrackSpecInit /\ [][TrackNext]_vars

\* C38: every item that has at least one active alert is tracked, after any
\* sequence of alert creation, item untracking, item update and catalog sync.
C38_AlertedItemsTracked ==
    \A i \in Items : HasActiveAlert(price_alerts, i) => catalog[i].is_tracked

\* An item with an active alert is tracked wherever it was before the call.
AlertedTracked(i) == HasActiveAlert(price_alerts, i) => catalog[i].is_tracked

\* Creating an alert for an item of the catalog leaves the item tracked and
\* with an active alert, and neither alert creation nor a catalog sync
\* untracks an item; untracking an item and an update that sets is_tracked
\* false leave the item untracked whatever alerts it has.
C38_CreateAndSyncKeepTracked ==
    [][track_ops' # track_ops =>
        LET op == last_op'.op
            i == last_op'.item_id
        IN  /\ (op = "create_alert" /\ catalog[i].exists) =>
                 catalog'[i].is_tracked /\ HasActiveAlert(price_alerts', i)
            /\ op \in {"create_alert", "sync_item_catalog"} =>
                 \A j \in Items : catalog[j].is_tracked => catalog'[j].is_tracked
            /\ op \in {"create_alert", "sync_item_catalog"} =>
                 \A j \in Items : AlertedTracked(j) => AlertedTracked(j)'
            /\ (op = "delete_item" /\ catalog[i].exists) => ~catalog'[i].is_tracked]_vars

\* An alert was created for an item that was in the catalog untracked, and
\* the item is tracked.
C38_Witness ==
    /\ last_op.op = "create_alert" /\ ~last_op.was_tracked
    /\ catalog[last_op.item_id].exists /\ catalog[last_op.item_id].is_tracked
    /\ HasActiveAlert(price_alerts, last_op.item_id)

\* --------------------------------------------------------------------------
\* The push-feed service's run loop: reconnection and subscription.
\* --------------------------------------------------------------------------
\* The other variables of the module, which run() leaves alone.
WsFrame ==
    UNCHANGED <<tickVars, rateVars, raceVars, schedVars, fetchVars, batchVars, gatherVars,
                histVars, crawlVars, keyVars, notifyVars, writeVars>>

\* What ends an iteration of the outer loop, and the sleep that follows it.
WsEvents == {"no_token", "auth_failed", "closed", "listen_error", "crashed"}

\* The iteration ends with event e: continue, break or the outer except.
EndIteration(e) ==
    /\ ws_pc' = "backoff"
    /\ ws_event' = e
    /\ UNCHANGED <<ws_token, ws_attempt, ws_snapshot, ws_sent, subscribed_items, ws_handled>>

\* The items every tracked one of which is sent a subscription.
ToSubscribeNew(tracked, subscribed) == tracked \ subscribed

\* for pk_id, torn_id in tracked_items: every row of the query
ToSubscribe(tracked, subscribed) == tracked

\* while self.running: self.token = await config_service.get_config(...);
\* no token: sleep and continue; get_config raising: the outer except.
GetToken ==
    /\ ws_pc = "top"
    /\ ws_attempt' = ~ws_attempt
    /\ \/ /\ ws_token
          /\ ws_pc' = "connect"
          /\ UNCHANGED ws_event
       \/ /\ ~ws_token
          /\ ws_pc' = "backoff"
          /\ ws_event' = "no_token"
       \/ /\ ws_pc' = "backoff"
          /\ ws_event' = "crashed"
    /\ UNCHANGED <<ws_token, ws_snapshot, ws_sent, subscribed_items, ws_handled>>
    /\ UNCHANGED trackVars /\ WsFrame

\* async with websockets.connect(WS_URL) as websocket: send(auth_payload)
Connect ==
    /\ ws_pc = "connect"
    /\ \/ /\ ws_pc' = "auth"
          /\ ws_sent' = {}
          /\ ws_snapshot' = {}
          /\ ws_handled' = FALSE
          /\ UNCHANGED <<ws_token, ws_attempt, ws_event, subscribed_items>>
       \/ EndIteration("crashed")
    /\ UNCHANGED trackVars /\ WsFrame

\* auth_response = await websocket.recv(): an error in it, or authenticated and
\* the query of _subscribe_active_items; recv raising goes to the outer except.
AuthResponse ==
    /\ ws_pc = "auth"
    /\ \/ EndIteration("auth_failed")
       \/ EndIteration("crashed")
       \/ /\ ws_pc' = "subscribe"
          /\ ws_snapshot' = {i \in Items : catalog[i].exists /\ catalog[i].is_tracked}
          /\ UNCHANGED <<ws_token, ws_attempt, ws_event, ws_sent, subscribed_items, ws_handled>>
    /\ UNCHANGED trackVars /\ WsFrame

\* The items of the query still to be sent on this connection.
Unsent == ToSubscribe(ws_snapshot, subscribed_items) \ ws_sent

\* await websocket.send(sub_payload); self.subscribed_items.add(pk_id), or the
\* send raises; after the last item the listen loop starts.
SubscribeStep ==
    /\ ws_pc = "subscribe"
    /\ IF Unsent = {}
       THEN /\ ws_pc' = "listen"
            /\ UNCHANGED <<ws_token, ws_attempt, ws_event, ws_snapshot, ws_sent,
                           subscribed_items, ws_handled>>
       ELSE \/ LET i == CHOOSE j \in Unsent : \A k \in Unsent : j <= k
               IN  /\ ws_sent' = ws_sent \cup {i}
                   /\ subscribed_items' = subscribed_items \cup {i}
                   /\ UNCHANGED <<ws_pc, ws_token, ws_attempt, ws_event, ws_snapshot,
                                  ws_handled>>
            \/ EndIteration("crashed")
    /\ UNCHANGED trackVars /\ WsFrame

\* message = await websocket.recv(); await self._handle_message(message), which
\* catches what it raises; ConnectionClosed and any other exception break.
Listen ==
    /\ ws_pc = "listen"
    /\ \/ /\ ws_handled' = TRUE
          /\ UNCHANGED <<ws_pc, ws_token, ws_attempt, ws_event, ws_snapshot, ws_sent,
                         subscribed_items>>
       \/ EndIteration("closed")
       \/ EndIteration("listen_error")
    /\ UNCHANGED trackVars /\ WsFrame

\* The sleep of the event is over (none after a break), or the sleep was
\* itself inside the try and raised: the loop tests self.running again.
Wake ==
    /\ ws_pc = "backoff"
    /\ ws_pc' = "top"
    /\ UNCHANGED <<ws_token, ws_attempt, ws_event, ws_snapshot, ws_sent, subscribed_items,
                   ws_handled>>
    /\ UNCHANGED trackVars /\ WsFrame

\* The administrator stores or removes the token.
SetToken ==
    /\ ws_token' = ~ws_token
    /\ UNCHANGED <<ws_pc, ws_attempt, ws_event, ws_snapshot, ws_sent, subscribed_items,
                   ws_handled>>
    /\ UNCHANGED trackVars /\ WsFrame

\* An item is tracked or untracked while the service runs.
SetTracked ==
    /\ \E i \in Items : catalog' = [catalog EXCEPT ![i].is_tracked = ~@]
    /\ UNCHANGED <<price_alerts, track_ops, last_op>>
    /\ UNCHANGED wsVars /\ WsFrame

\* What run() does itself.
RunStep == GetToken \/ Connect \/ AuthResponse \/ SubscribeStep \/ Listen \/ Wake

WsNext == RunStep \/ SetToken \/ SetTracked

WsSpecInit ==
    /\ Settled /\ api_rate_limit = 1 /\ key_count = 1 /\ alerts = InitAlerts
    /\ RateInit /\ RaceInit /\ SchedInit /\ FetchInit /\ BatchInit /\ GatherInit /\ NotifyInit /\ KeyInit /\ CrawlInit /\ HistInit /\ WriteInit
    /\ catalog = [i \in Items |-> [exists |-> TRUE, is_tracked |-> i = 1, name |-> 0]]
    /\ price_alerts = {} /\ track_ops = 0 /\ last_op = NoOp
    /\ ws_token \in BOOLEAN
    /\ ws_pc = "top" /\ ws_attempt = FALSE /\ ws_event = "none"
    /\ ws_snapshot = {} /\ ws_sent = {} /\ subscribed_items = {} /\ ws_handled = FALSE

\* The event loop resumes run() whenever the await it is suspended in has
\* finished: a sleep ends, and get_config answers or raises.
SpecWs == WsSpecInit /\ [][WsNext]_vars /\ WF_vars(Wake) /\ WF_vars(GetToken)

\* Every message handled on a connection was received after a subscription
\* had been sent on it for each item the query after the authentication found.
SubscribedBeforeHandling == ws_handled => ws_snapshot \subseteq ws_sent

\* A missing token, failed authentication, closed connection, listen-loop
\* error or exception in run() is followed by a new iteration of the loop.
Reattempted ==
    \A b \in BOOLEAN :
        (ws_pc = "backoff" /\ ws_event \in WsEvents /\ ws_attempt = b) ~> (ws_attempt # b)

\* C39: while the service runs, every missing token, authentication failure,
\* closed connection or listen-loop error is eventually followed by a new
\* connection attempt, and after each successful authentication a
\* subscription is sent for every item tracked at that moment before any
\* update message is handled.
C39_ReconnectsAndSubscribesFirst == Reattempted /\ []SubscribedBeforeHandling

\* After a closed connection the service has connected again, sent the
\* subscriptions of the two items tracked by then, one of them for the second
\* time, and handled a message.
C39_Witness ==
    /\ ws_pc = "listen" /\ ws_handled /\ ws_event = "closed"
    /\ ws_snapshot = Items /\ ws_sent = Items /\ subscribed_items = Items

\* --------------------------------------------------------------------------
\* The cached market price of one item under the tick and the push feed.
\* --------------------------------------------------------------------------
MaxPushes == 2

\* The other variables of the module, which the two writers leave alone.
WriteFrame ==
    UNCHANGED <<rateVars, raceVars, schedVars, fetchVars, batchVars, gatherVars,
                histVars, crawlVars, keyVars, notifyVars, trackVars, wsVars>>

TickFrame ==
    UNCHANGED <<api_rate_limit, key_count, alerts, bazaar_cooldowns, pc, rate_limit,
                tracked_items, untracked_items, price_updates, fetched, trig_log, log>>

\* The UPDATE a session's flush issues for a row it loaded as loaded and whose
\* attributes are now as in changed: the columns whose value differs from the
\* loaded one are written over the row of the table, the others are left.
Flushed(row, loaded, changed) ==
    [f \in DOMAIN row |-> IF changed[f] # loaded[f] THEN changed[f] ELSE row[f]]

\* update_all_prices: select(Item).where(is_tracked) into the tick's session,
\* then get_items is awaited.
TickLoad ==
    /\ wr_pc = "idle"
    /\ ticks < MaxTicks
    /\ ticks' = ticks + 1
    /\ now' = now + TickPeriod
    /\ wr_loaded' = items[1]
    /\ wr_pc' = "fetch"
    /\ UNCHANGED <<items, wr_fetched, wr_pushes, wr_epoch, wr_lost>>
    /\ TickFrame /\ WriteFrame

\* fetched_data = await torn_api_service.get_items(chunk_ids)
TickFetched ==
    /\ wr_pc = "fetch"
    /\ \E feed \in TickFeeds : wr_fetched' = FetchSingleItem(feed)
    /\ wr_epoch' = wr_pushes
    /\ wr_pc' = "save"
    /\ UNCHANGED <<now, ticks, items, wr_loaded, wr_pushes, wr_lost>>
    /\ TickFrame /\ WriteFrame

\* The loop body on the loaded object, the insert of the price log and the
\* commit; no alert of the model is active, so check_alerts changes nothing.
TickSave ==
    /\ wr_pc = "save"
    /\ LET new == Flushed(items[1], wr_loaded, ProcessedItem(wr_loaded, wr_fetched, now))
       IN  /\ items' = [items EXCEPT ![1] = new]
           /\ wr_lost' = (wr_lost \/ (/\ wr_pushes > wr_epoch
                                      /\ new.last_market_price # items[1].last_market_price))
    /\ wr_pc' = "idle"
    /\ UNCHANGED <<now, ticks, wr_loaded, wr_fetched, wr_pushes, wr_epoch>>
    /\ TickFrame /\ WriteFrame

\* _handle_message for an update of item 1: a session of its own, the row
\* selected, item.last_market_price = min_price, commit.
PushUpdate ==
    /\ wr_pushes < MaxPushes
    /\ wr_pushes' = wr_pushes + 1
    /\ \E min_price \in PushPrices :
         items' = [items EXCEPT ![1].last_market_price = min_price]
    /\ UNCHANGED <<now, ticks, wr_pc, wr_loaded, wr_fetched, wr_epoch, wr_lost>>
    /\ TickFrame /\ WriteFrame

WriteNext == TickLoad \/ TickFetched \/ TickSave \/ PushUpdate

\* Item 1 tracked and never priced, one credential of limit 1 (no backfill),
\* no active alert.
WriteSpecInit ==
    /\ now = Now0 /\ ticks = 0 /\ api_rate_limit = 1 /\ key_count = 1
    /\ items = [i \in Items |-> ItemRow(i = 1, 0, Now0 - 1)]
    /\ alerts = [a \in Alerts |-> [InitAlerts[a] EXCEPT !.is_active = FALSE]]
    /\ bazaar_cooldowns = NoCooldowns /\ pc = "idle" /\ rate_limit = 0
    /\ tracked_items = {} /\ untracked_items = {}
    /\ price_updates = << >> /\ fetched = << >>
    /\ trig_log = [a \in Alerts |-> <<>>] /\ log = << >>
    /\ RateInit /\ RaceInit /\ SchedInit /\ FetchInit /\ BatchInit /\ GatherInit /\ NotifyInit /\ TrackInit /\ WsInit /\ WriteInit /\ KeyInit /\ CrawlInit /\ HistInit

SpecWrite == WriteSpecInit /\ [][WriteNext]_vars

\* C40: once a push update for an item has committed market price p, a tick
\* whose fetch for the item was answered, with a market price, before the push
\* update does not afterwards overwrite the cached market price with its older
\* fetched value.
C40_NoLostPushUpdate ==
    [][(wr_pc = "save" /\ wr_pc' = "idle" /\ wr_pushes > wr_epoch
          /\ wr_fetched.market_price > 0) =>
          items'[1].last_market_price = items[1].last_market_price]_vars

\* What the sessions do give: the tick's commit leaves a pushed price alone
\* only when the price it fetched is the one its session had loaded.
C40_KeptOnlyWhenUnchanged ==
    [][(wr_pc = "save" /\ wr_pc' = "idle") =>
          items'[1].last_market_price =
             (IF wr_fetched.market_price = wr_loaded.last_market_price
              THEN items[1].last_market_price ELSE wr_fetched.market_price)]_vars

\* A pushed price was replaced by the older price of a tick.
C40_Lost ==
    /\ wr_lost /\ wr_pc = "idle" /\ wr_pushes > wr_epoch
    /\ wr_fetched.market_price > 0
    /\ items[1].last_market_price = wr_fetched.market_price

====
